---- MODULE Spec2Model ----
(***************************************************************************)
(* mcp-tidy: the config writer (Backup, RemoveServer, RemoveServers,       *)
(* atomicWrite) over a small file system, at system-call granularity.      *)
(*                                                                         *)
(* A file holds a JSON text.  A JSON text is kept as an ordered tree (the  *)
(* order of an object's members is the order of the bytes on disk);        *)
(* encoding/json decodes it into Go values (objects become unordered maps, *)
(* numbers become float64) and encodes Go values back into a tree (map     *)
(* keys in ascending byte order).                                          *)
(***************************************************************************)
EXTENDS Integers, Sequences, FiniteSets, TLC

(***************************************************************************)
(* JSON texts.  One record shape for every value, so that any two values   *)
(* can be compared:                                                        *)
(*   t   : "null" | "str" | "num" | "arr" | "obj"                          *)
(*   s   : the string of a "str"                                           *)
(*   big, off : a "num" is the integer literal off (big = FALSE) or        *)
(*              2^53 + off (big = TRUE), 0 <= off < 2^53                    *)
(*   kv  : the members of an "obj" in document order, [k, v] each; the     *)
(*         elements of an "arr" in order, with k = ""                      *)
(***************************************************************************)
Null == [t |-> "null", s |-> "", big |-> FALSE, off |-> 0, kv |-> <<>>]

Str(x) == [t |-> "str", s |-> x, big |-> FALSE, off |-> 0, kv |-> <<>>]

Num(b, o) == [t |-> "num", s |-> "", big |-> b, off |-> o, kv |-> <<>>]

Obj(members) == [t |-> "obj", s |-> "", big |-> FALSE, off |-> 0, kv |-> members]

Arr(elems) ==
    [t |-> "arr", s |-> "", big |-> FALSE, off |-> 0,
     kv |-> [i \in 1..Len(elems) |-> [k |-> "", v |-> elems[i]]]]

KV(key, val) == [k |-> key, v |-> val]

(* Every object key of the modelled documents, in ascending byte order     *)
(* ('/' < 'a' < 'b' < 'c' < 'l' < 'm' < 'n' < 'p' < 't' < 'u'): the order   *)
(* in which encoding/json writes the keys of a map.                        *)
KeyOrder ==
    << "/p", "/q", "a", "args", "b", "command", "lastCost", "mcpServers",
       "numStartups", "projects", "type", "url" >>

KeyRank(k) == CHOOSE i \in 1..Len(KeyOrder) : KeyOrder[i] = k

KeysOf(members) == {members[i].k : i \in 1..Len(members)}

(* The value a decoder ends with for key k: a later member of the same     *)
(* name replaces an earlier one.                                           *)
LastIndex(members, k) ==
    CHOOSE i \in 1..Len(members) :
        /\ members[i].k = k
        /\ \A j \in (i+1)..Len(members) : members[j].k # k

(* strconv.ParseFloat on an integer literal: below 2^53 every integer is a *)
(* float64; in [2^53, 2^54) the float64 values are the even integers, and  *)
(* an odd literal is a tie, rounded to the neighbour with an even          *)
(* mantissa ((2^53 + off) / 2 even, that is off a multiple of 4).          *)
Float64Off(b, o) ==
    IF ~b \/ o % 2 = 0 THEN o
    ELSE IF (o - 1) % 4 = 0 THEN o - 1 ELSE o + 1

(***************************************************************************)
(* json.Unmarshal into interface{}: Go values.  Same record shape with     *)
(* m (a map: a function from keys to Go values) in place of kv for an      *)
(* object, and a (a slice) for an array.                                   *)
(***************************************************************************)
RECURSIVE Decode(_)
Decode(v) ==
    CASE v.t = "obj" ->
           [t |-> "obj", s |-> "", big |-> FALSE, off |-> 0, a |-> <<>>,
            m |-> [k \in KeysOf(v.kv) |-> Decode(v.kv[LastIndex(v.kv, k)].v)]]
      [] v.t = "arr" ->
           [t |-> "arr", s |-> "", big |-> FALSE, off |-> 0,
            a |-> [i \in 1..Len(v.kv) |-> Decode(v.kv[i].v)],
            m |-> <<>>]
      [] v.t = "num" ->
           [t |-> "num", s |-> "", big |-> v.big, off |-> Float64Off(v.big, v.off),
            a |-> <<>>, m |-> <<>>]
      [] OTHER ->
           [t |-> v.t, s |-> v.s, big |-> FALSE, off |-> 0, a |-> <<>>, m |-> <<>>]

(* sort.Strings over a map's keys, as encoding/json's map encoder does.    *)
SortedKeys(S) == SelectSeq(KeyOrder, LAMBDA k : k \in S)

(***************************************************************************)
(* json.MarshalIndent of a Go value: the tree it writes.  Indentation and  *)
(* white space are not part of a tree.                                     *)
(***************************************************************************)
RECURSIVE Encode(_)
Encode(g) ==
    CASE g.t = "obj" ->
           LET ks == SortedKeys(DOMAIN g.m)
           IN  Obj([i \in 1..Len(ks) |-> KV(ks[i], Encode(g.m[ks[i]]))])
      [] g.t = "arr" ->
           Arr([i \in 1..Len(g.a) |-> Encode(g.a[i])])
      [] g.t = "num" -> Num(g.big, g.off)
      [] g.t = "str" -> Str(g.s)
      [] OTHER -> Null

(***************************************************************************)
(* The removal itself, on the decoded document.                            *)
(***************************************************************************)

(* x[key].(map[string]interface{}): ok exactly when x is a (non-nil) map   *)
(* that has the key and the value under it is itself a map.                *)
HasMap(x, key) == x.t = "obj" /\ key \in DOMAIN x.m /\ x.m[key].t = "obj"

(* delete(m, name) on a Go map; deleting a missing key does nothing.       *)
DeleteKey(x, name) == [x EXCEPT !.m = [k \in (DOMAIN x.m) \ {name} |-> x.m[k]]]

(* Mutant: the removal also drops a mapping it has emptied.                *)
RemoveFromRaw_DropsEmptied(raw, server) ==
    IF server.scope = "global" /\ HasMap(raw, "mcpServers")
    THEN IF DOMAIN raw.m["mcpServers"].m \subseteq {server.name}
         THEN DeleteKey(raw, "mcpServers")
         ELSE [raw EXCEPT !.m["mcpServers"] = DeleteKey(@, server.name)]
    ELSE IF /\ server.scope = "project"
            /\ HasMap(raw, "projects")
            /\ HasMap(raw.m["projects"], server.projectPath)
            /\ HasMap(raw.m["projects"].m[server.projectPath], "mcpServers")
         THEN [raw EXCEPT !.m["projects"].m[server.projectPath] =
                              DeleteKey(@, "mcpServers")]
         ELSE raw

(* Mutant: the scope is not looked at; the name goes from the top-level    *)
(* mapping whatever the descriptor's scope.                                *)
RemoveFromRaw_IgnoresScope(raw, server) ==
    IF HasMap(raw, "mcpServers")
    THEN [raw EXCEPT !.m["mcpServers"] = DeleteKey(@, server.name)]
    ELSE raw

(* The scope switch of RemoveServer and of the loop body of RemoveServers. *)
RemoveFromRaw(raw, server) ==
    IF server.scope = "global"
    THEN IF HasMap(raw, "mcpServers")
         THEN [raw EXCEPT !.m["mcpServers"] = DeleteKey(@, server.name)]
         ELSE raw
    ELSE IF /\ HasMap(raw, "projects")
            /\ HasMap(raw.m["projects"], server.projectPath)
            /\ HasMap(raw.m["projects"].m[server.projectPath], "mcpServers")
         THEN [raw EXCEPT !.m["projects"].m[server.projectPath].m["mcpServers"] =
                              DeleteKey(@, server.name)]
         ELSE raw

(* for i := range servers { ... } *)
RECURSIVE RemoveAll(_, _)
RemoveAll(raw, servers) ==
    IF servers = <<>> THEN raw
    ELSE RemoveAll(RemoveFromRaw(raw, Head(servers)), Tail(servers))

(***************************************************************************)
(* File contents.  st: "absent" (no such file), "invalid" (bytes that are  *)
(* not a JSON text), "empty" (zero bytes), "partial" (a proper prefix of   *)
(* doc's bytes), "full" (doc's bytes).                                     *)
(***************************************************************************)
Absent == [st |-> "absent", doc |-> Null]

Invalid == [st |-> "invalid", doc |-> Null]

Full(d) == [st |-> "full", doc |-> d]

Cut(c, how) == [st |-> how, doc |-> c.doc]

Exists(c) == c.st # "absent"

(* json.Unmarshal(content, &raw) with raw a map[string]interface{}: fails  *)
(* on bytes that are not a JSON text and on a text that is neither an      *)
(* object nor null; null leaves raw a nil map.                             *)
UnmarshalOk(c) == c.st = "full" /\ c.doc.t \in {"obj", "null"}

(* Mutant: the members keep the order they were read in (no sort).         *)
NewContent_KeepsOrder(c, servers) ==
    LET RECURSIVE Strip(_, _)
        Strip(v, g) ==
            IF v.t = "obj"
            THEN LET keep == SelectSeq(v.kv, LAMBDA e : e.k \in DOMAIN g.m)
                 IN  Obj([i \in 1..Len(keep) |->
                            KV(keep[i].k, Strip(keep[i].v, g.m[keep[i].k]))])
            ELSE Encode(g)
    IN  Full(Strip(c.doc, RemoveAll(Decode(c.doc), servers)))

(* Unmarshal, the removals, MarshalIndent: the bytes handed to atomicWrite. *)
NewContent(c, servers) == Full(Encode(RemoveAll(Decode(c.doc), servers)))

(***************************************************************************)
(* Bounds, and the inputs drawn within them.                               *)
(***************************************************************************)

(* The longest descriptor list handed to RemoveServers.                    *)
MaxServers == 2

(* The clock runs from tick 0 to tick MaxClock.                            *)
MaxClock == 2

(* Clock ticks in one second: time.Now() is finer than the second that the *)
(* layout "20060102-150405" keeps.                                         *)
TicksPerSecond == 2

(* time.Now().Format("20060102-150405"): the second the tick falls in.     *)
FormatTimestamp(tick) == tick \div TicksPerSecond

Seconds == 0..FormatTimestamp(MaxClock)

(* The processes that call into the package: one run of the command.      *)
Procs == {"p1"}

Names == {"a", "b"}

(* The project a descriptor may name; the documents also hold a project   *)
(* "/q" that no descriptor names.                                          *)
ProjectPaths == {"/p"}

(* types.MCPServer, the fields the writer reads.  A descriptor that Load   *)
(* produced for a global server has an empty ProjectPath.                  *)
Descriptors ==
    [name : Names, scope : {"global"}, projectPath : {""}]
       \cup [name : Names, scope : {"project"}, projectPath : ProjectPaths]

RECURSIVE SeqsUpTo(_, _)
SeqsUpTo(S, n) ==
    IF n = 0 THEN {<<>>}
    ELSE LET shorter == SeqsUpTo(S, n - 1)
         IN  shorter \cup {Append(q, x) : q \in {r \in shorter : Len(r) = n - 1}, x \in S}

ServerLists == SeqsUpTo(Descriptors, MaxServers)

(* A server entry; where tells the entries of one name apart.              *)
ServerEntry(name, where) ==
    IF name = "a"
    THEN Obj(<< KV("type", Str("http")), KV("url", Str(where)) >>)
    ELSE Obj(<< KV("command", Str(where)), KV("args", Arr(<< Str("-y") >>)),
                KV("type", Str("stdio")) >>)

Mapping(names, where) ==
    Obj([i \in 1..Len(names) |-> KV(names[i], ServerEntry(names[i], where))])

(* The value under the top-level "mcpServers", none for no such member.    *)
GlobalShapes == {<<>>, << Null >>, << Mapping(<< "b", "a" >>, "g") >>}

(* The members of a document, ascending by key or the other way round.     *)
Ordered(members, ascending) ==
    IF ascending THEN members
    ELSE [i \in 1..Len(members) |-> members[Len(members) + 1 - i]]

(* The value under "projects": none; two projects, one of them with a      *)
(* field the typed model does not know (lastCost); one project without     *)
(* "mcpServers".                                                           *)
ProjectsShapes(ascending) ==
    { <<>>,
      << Obj(Ordered(
           << KV("/p", Obj(Ordered(<< KV("lastCost", Num(FALSE, 1)),
                                      KV("mcpServers", Mapping(<< "a" >>, "p")) >>,
                                   ascending))),
              KV("/q", Obj(<< KV("mcpServers", Mapping(<< "a" >>, "q")) >>)) >>,
           ascending)) >>,
      << Obj(<< KV("/p", Obj(<< KV("lastCost", Num(FALSE, 1)) >>)) >>) >> }

(* The value under "numStartups", a field the typed model does not know:   *)
(* none, or the integer 2^53 + 1.                                          *)
UnknownShapes == {<<>>, << Num(TRUE, 1) >>}

Member(key, shape) == IF shape = <<>> THEN <<>> ELSE << KV(key, shape[1]) >>

(* The documents a config file may hold: every combination of the shapes,  *)
(* members in ascending or in descending key order; a bare null; a scalar. *)
DocumentsIn(ascending) ==
    { Obj(Ordered(Member("mcpServers", g) \o Member("numStartups", u)
                    \o Member("projects", pr), ascending))
        : g \in GlobalShapes, u \in UnknownShapes, pr \in ProjectsShapes(ascending) }

Documents == DocumentsIn(TRUE) \cup DocumentsIn(FALSE) \cup {Null, Str("x")}

InitialContents == {Absent, Invalid} \cup {Full(d) : d \in Documents}

(***************************************************************************)
(* State.                                                                  *)
(*   files    the directory of the config file: cfg (the config path),     *)
(*            bak[sec] (<config path>.backup.<timestamp of second sec>),   *)
(*            tmp[p] (the mcp-tidy-*.tmp file that os.CreateTemp made for  *)
(*            process p: CreateTemp never hands out a name twice)          *)
(*   now      the clock, in ticks                                          *)
(*   pc, op, args   where each process is, in which exported call, with    *)
(*            which descriptors                                            *)
(*   loc      its local variables: content (the bytes read), newContent,   *)
(*            backupPath (the second of the backup path, -1 before), err   *)
(*            (the error atomicWrite is about to return)                   *)
(*   ret      what the call returned: err ("" for nil), backupPath         *)
(*   hist     bookkeeping on the call: pre (files when it was made),       *)
(*            backups (Backup calls that succeeded), replaced (renames     *)
(*            over the config path), printed (lines sent to os.Stdout)     *)
(*   observed what the reader last found at the config path                *)
(***************************************************************************)
VARIABLES files, now, pc, op, args, loc, ret, hist, observed

vars == << files, now, pc, op, args, loc, ret, hist, observed >>

NotRead == [st |-> "notread", doc |-> Null]

NoLocals == [content |-> NotRead, newContent |-> NotRead, backupPath |-> -1, err |-> ""]

NoReturn == [err |-> "", backupPath |-> -1]

NewHist(f) == [pre |-> f, backups |-> 0, replaced |-> 0, printed |-> 0]

InitFiles(c) ==
    [cfg |-> c, bak |-> [sec \in Seconds |-> Absent], tmp |-> [p \in Procs |-> Absent]]

Init ==
    /\ files \in {InitFiles(c) : c \in InitialContents}
    /\ now = 0
    /\ pc = [p \in Procs |-> "idle"]
    /\ op = [p \in Procs |-> "none"]
    /\ args = [p \in Procs |-> <<>>]
    /\ loc = [p \in Procs |-> NoLocals]
    /\ ret = [p \in Procs |-> NoReturn]
    /\ hist = [p \in Procs |-> NewHist(files)]
    /\ observed = NotRead

(* return err (or nil, err = ""), with Backup's path where there is one.   *)
Returns(p, e, path) ==
    /\ pc' = [pc EXCEPT ![p] = "done"]
    /\ ret' = [ret EXCEPT ![p] = [err |-> e, backupPath |-> path]]

Goto(p, label) == pc' = [pc EXCEPT ![p] = label] /\ UNCHANGED ret

Begin(p, call, servers) ==
    /\ pc[p] = "idle"
    /\ op' = [op EXCEPT ![p] = call]
    /\ args' = [args EXCEPT ![p] = servers]
    /\ hist' = [hist EXCEPT ![p] = NewHist(files)]
    /\ UNCHANGED << files, now, loc, observed >>

(* Backup(configPath) called on its own.                                   *)
CallBackup(p) == Begin(p, "Backup", <<>>) /\ Goto(p, "bk_read")

(* RemoveServer(configPath, server).                                       *)
CallRemoveServer(p) ==
    \E server \in Descriptors : Begin(p, "RemoveServer", << server >>) /\ Goto(p, "rm_read")

(* Mutant: the empty list is not special; the backup is taken anyway.      *)
FirstStep_NoEmptyCheck(servers) == "bk_read"

(* Mutant: no backup is taken before the removal.                          *)
FirstStep_NoBackup(servers) == IF Len(servers) = 0 THEN "done" ELSE "rm_read"

(* if len(servers) == 0 { return nil }, else on to Backup.                 *)
FirstStep(servers) == IF Len(servers) = 0 THEN "done" ELSE "bk_read"

(* RemoveServers(configPath, servers).                                     *)
CallRemoveServers(p) ==
    \E servers \in ServerLists :
        /\ Begin(p, "RemoveServers", servers)
        /\ IF FirstStep(servers) = "done"
           THEN Returns(p, "", -1)
           ELSE Goto(p, FirstStep(servers))

(* What the caller of Backup gets on its error: Backup's own message, or   *)
(* RemoveServers' wrapping of it.                                          *)
BackupError(call, e) == IF call = "RemoveServers" THEN "failed to create backup" ELSE e

(* Backup: content, err := os.ReadFile(configPath).                        *)
BkRead(p) ==
    /\ pc[p] = "bk_read"
    /\ \/ /\ Exists(files.cfg)
          /\ loc' = [loc EXCEPT ![p].content = files.cfg]
          /\ Goto(p, "bk_write")
       \/ /\ Returns(p, BackupError(op[p], "failed to read config for backup"), -1)
          /\ UNCHANGED loc
    /\ UNCHANGED << files, now, op, args, hist, observed >>

(* Mutant: the timestamp of the path stops at the minute.                  *)
BackupPath_ToTheMinute(tick) == 0

(* fmt.Sprintf("%s.backup.%s", configPath, timestamp): the path is named   *)
(* by its second.                                                          *)
BackupPath(tick) == FormatTimestamp(tick)

(* Mutant: the backup is written from the new document, not from the bytes *)
(* read.                                                                   *)
BackupBytes_Reencoded(c) == IF UnmarshalOk(c) THEN Full(Encode(Decode(c.doc))) ELSE c

(* The bytes os.WriteFile is handed: the bytes read.                       *)
BackupBytes(c) == c

(* Where RemoveServers goes once Backup has returned without error.        *)
AfterBackup(call) == IF call = "RemoveServers" THEN "rm_read" ELSE "done"

(* Backup: the timestamp, the path, os.WriteFile(backupPath, content); and *)
(* in RemoveServers the fmt.Printf of the path.  WriteFile opens with      *)
(* O_CREATE|O_TRUNC and then writes: it may fail before the file exists,   *)
(* or leave it empty or cut short.                                         *)
BkWrite(p) ==
    /\ pc[p] = "bk_write"
    /\ LET path == BackupPath(now) IN
       \/ /\ files' = [files EXCEPT !.bak[path] = BackupBytes(loc[p].content)]
          /\ loc' = [loc EXCEPT ![p].backupPath = path]
          /\ hist' = [hist EXCEPT ![p].backups = @ + 1,
                                  ![p].printed = @ + (IF op[p] = "RemoveServers" THEN 1 ELSE 0)]
          /\ IF AfterBackup(op[p]) = "done"
             THEN Returns(p, "", path)
             ELSE Goto(p, AfterBackup(op[p]))
       \/ /\ \/ UNCHANGED files
             \/ \E how \in {"empty", "partial"} :
                   files' = [files EXCEPT !.bak[path] = Cut(loc[p].content, how)]
          /\ Returns(p, BackupError(op[p], "failed to write backup"), -1)
          /\ UNCHANGED << loc, hist >>
    /\ UNCHANGED << now, op, args, observed >>

(* RemoveServer and RemoveServers: os.ReadFile, json.Unmarshal, the        *)
(* removals, json.MarshalIndent.  MarshalIndent cannot fail on values that *)
(* Unmarshal produced.                                                     *)
RmRead(p) ==
    /\ pc[p] = "rm_read"
    /\ \/ /\ Exists(files.cfg)
          /\ UnmarshalOk(files.cfg)
          /\ loc' = [loc EXCEPT ![p].content = files.cfg,
                                ![p].newContent = NewContent(files.cfg, args[p])]
          /\ Goto(p, "aw_create")
       \/ /\ Exists(files.cfg)
          /\ ~UnmarshalOk(files.cfg)
          /\ loc' = [loc EXCEPT ![p].content = files.cfg]
          /\ Returns(p, "failed to parse config", -1)
       \/ /\ Returns(p, "failed to read config", -1)
          /\ UNCHANGED loc
    /\ UNCHANGED << files, now, op, args, hist, observed >>

(***************************************************************************)
(* atomicWrite(path, content), one action per system call.                 *)
(***************************************************************************)

(* os.CreateTemp(dir, "mcp-tidy-*.tmp"): a new, empty file.                *)
AwCreate(p) ==
    /\ pc[p] = "aw_create"
    /\ \/ /\ files' = [files EXCEPT !.tmp[p] = Cut(loc[p].newContent, "empty")]
          /\ Goto(p, "aw_write")
          /\ UNCHANGED loc
       \/ /\ loc' = [loc EXCEPT ![p].err = "failed to create temp file"]
          /\ Returns(p, "failed to write config", -1)
          /\ UNCHANGED files
    /\ UNCHANGED << now, op, args, hist, observed >>

(* Mutant: the temp file has one fixed name, whichever process makes it.   *)
WriteBytes_FixedTempName(f, p, c) == [f EXCEPT !.tmp["p1"] = c]

(* Mutant: the bytes go straight into the config file.                     *)
WriteBytes_InPlace(f, p, c) == [f EXCEPT !.cfg = c]

(* tmpFile.Write: the file that receives the bytes is the temp file.       *)
WriteBytes(f, p, c) == [f EXCEPT !.tmp[p] = c]

(* tmpFile.Write(content) under way: part of the bytes are in the file.    *)
AwWriteChunk(p) ==
    /\ pc[p] = "aw_write"
    /\ files.tmp[p].st = "empty"
    /\ files' = WriteBytes(files, p, Cut(loc[p].newContent, "partial"))
    /\ Goto(p, "aw_write")
    /\ UNCHANGED << now, op, args, loc, hist, observed >>

(* tmpFile.Write(content) returns: all the bytes are written, or an error  *)
(* with the file as far as it got.                                         *)
AwWrite(p) ==
    /\ pc[p] = "aw_write"
    /\ \/ /\ files' = WriteBytes(files, p, loc[p].newContent)
          /\ Goto(p, "aw_close")
          /\ UNCHANGED loc
       \/ /\ loc' = [loc EXCEPT ![p].err = "failed to write to temp file"]
          /\ Goto(p, "aw_cleanup")
          /\ UNCHANGED files
    /\ UNCHANGED << now, op, args, hist, observed >>

(* tmpFile.Close().                                                        *)
AwClose(p) ==
    /\ pc[p] = "aw_close"
    /\ \/ /\ Goto(p, "aw_rename")
          /\ UNCHANGED loc
       \/ /\ loc' = [loc EXCEPT ![p].err = "failed to close temp file"]
          /\ Goto(p, "aw_cleanup")
    /\ UNCHANGED << files, now, op, args, hist, observed >>

(* os.Rename(tmpPath, path): the temp file's bytes are under the config    *)
(* path, in one step, and the temp name is gone.                           *)
RenameOver(f, p) == [f EXCEPT !.cfg = f.tmp[p], !.tmp[p] = Absent]

AwRename(p) ==
    /\ pc[p] = "aw_rename"
    /\ \/ /\ files' = RenameOver(files, p)
          /\ hist' = [hist EXCEPT ![p].replaced = @ + 1]
          /\ Returns(p, "", -1)
          /\ UNCHANGED loc
       \/ /\ loc' = [loc EXCEPT ![p].err = "failed to rename temp file"]
          /\ Goto(p, "aw_cleanup")
          /\ UNCHANGED << files, hist >>
    /\ UNCHANGED << now, op, args, observed >>

(* Mutant: the temp file is left where it is.                              *)
RemoveTemp_Forgotten(f, p) == f

(* os.Remove(tmpPath).                                                     *)
RemoveTemp(f, p) == [f EXCEPT !.tmp[p] = Absent]

(* The error paths of atomicWrite: (Close,) os.Remove(tmpPath), and the    *)
(* caller's wrapped error.                                                 *)
AwCleanup(p) ==
    /\ pc[p] = "aw_cleanup"
    /\ files' = RemoveTemp(files, p)
    /\ Returns(p, "failed to write config", -1)
    /\ UNCHANGED << now, op, args, loc, hist, observed >>

(* Another process (the assistant) opens the config path and reads it.     *)
ReaderOpen ==
    /\ observed' = files.cfg
    /\ UNCHANGED << files, now, pc, op, args, loc, ret, hist >>

(* A tick of the clock.                                                    *)
Tick ==
    /\ now < MaxClock
    /\ now' = now + 1
    /\ UNCHANGED << files, pc, op, args, loc, ret, hist, observed >>

Step(p) ==
    \/ CallBackup(p)
    \/ CallRemoveServer(p)
    \/ CallRemoveServers(p)
    \/ BkRead(p)
    \/ BkWrite(p)
    \/ RmRead(p)
    \/ AwCreate(p)
    \/ AwWriteChunk(p)
    \/ AwWrite(p)
    \/ AwClose(p)
    \/ AwRename(p)
    \/ AwCleanup(p)

(* One call into the package by one process, a reader beside it.           *)
Next == Step("p1") \/ ReaderOpen \/ Tick

Spec == Init /\ [][Next]_vars

(***************************************************************************)
(* Vocabulary of the properties.                                           *)
(***************************************************************************)

(* The process that Spec runs.                                             *)
W == "p1"

Done == pc[W] = "done"

Succeeded == Done /\ ret[W].err = ""

Pre == hist[W].pre

Removing == op[W] \in {"RemoveServer", "RemoveServers"}

(* The errors atomicWrite returns, one for each system call that can fail. *)
AtomicWriteErrors ==
    { "failed to create temp file", "failed to write to temp file",
      "failed to close temp file", "failed to rename temp file" }

(* The member of object v under key k, as a one-element sequence; none for *)
(* a v that is no object or has no such member.                            *)
Field(v, k) ==
    IF v.t = "obj" /\ k \in KeysOf(v.kv) THEN << v.kv[LastIndex(v.kv, k)].v >> ELSE <<>>

IsMapping(found) == found # <<>> /\ found[1].t = "obj"

(* The mcpServers mapping a (scope, projectPath) selects in document d.    *)
MappingAt(d, scope, path) ==
    IF scope = "global" THEN Field(d, "mcpServers")
    ELSE LET projects == Field(d, "projects") IN
         IF ~IsMapping(projects) THEN <<>>
         ELSE LET project == Field(projects[1], path) IN
              IF ~IsMapping(project) THEN <<>> ELSE Field(project[1], "mcpServers")

ProjectsOf(d) ==
    LET projects == Field(d, "projects")
    IN  IF IsMapping(projects) THEN KeysOf(projects[1].kv) ELSE {}

NamesAt(d, scope, path) ==
    LET found == MappingAt(d, scope, path)
    IN  IF IsMapping(found) THEN KeysOf(found[1].kv) ELSE {}

(* The server entries of a document, as (scope, projectPath, name).        *)
EntriesOf(d) ==
    { [name |-> n, scope |-> "global", projectPath |-> ""] : n \in NamesAt(d, "global", "") }
    \cup UNION { { [name |-> n, scope |-> "project", projectPath |-> path]
                     : n \in NamesAt(d, "project", path) } : path \in ProjectsOf(d) }

(* A descriptor matches an entry of its scope and name and, for a project  *)
(* entry, of its project path.                                             *)
Matches(server, entry) ==
    /\ server.scope = entry.scope
    /\ server.name = entry.name
    /\ server.scope = "project" => server.projectPath = entry.projectPath

MatchedBy(servers, d) ==
    { e \in EntriesOf(d) : \E i \in 1..Len(servers) : Matches(servers[i], e) }

(* C1: at every step of RemoveServer or RemoveServers, and for every read  *)
(* the reader has made, the content at the config path is whole and is     *)
(* either the content the call found or the new document; it is never an   *)
(* empty or partly written file.                                           *)
C1_ReaderSeesWholeDocument ==
    LET whole == {Pre.cfg} \cup (IF loc[W].newContent = NotRead THEN {} ELSE {loc[W].newContent})
    IN  /\ files.cfg \in whole
        /\ files.cfg.st \notin {"empty", "partial"}
        /\ observed = NotRead \/ observed \in whole
        /\ observed.st \notin {"empty", "partial"}

(* C1 witness: the temp file is partly written and the reader has just     *)
(* read the old document, which differs from the one under way.            *)
C1_Witness ==
    /\ Removing
    /\ pc[W] = "aw_write"
    /\ files.tmp[W].st = "partial"
    /\ observed = Pre.cfg
    /\ loc[W].newContent # Pre.cfg

C3_OneBackupThenOneWrite ==
    (op[W] = "RemoveServers" /\ args[W] # <<>>) =>
        /\ hist[W].backups <= 1
        /\ hist[W].replaced <= 1
        /\ hist[W].replaced = 1 => hist[W].backups = 1
        /\ Succeeded => hist[W].backups = 1 /\ hist[W].replaced = 1
        /\ (pc[W] \notin {"idle", "bk_read", "bk_write"} /\ hist[W].backups = 0) =>
              /\ Done
              /\ ret[W].err = "failed to create backup"
              /\ hist[W].replaced = 0
              /\ files.cfg = Pre.cfg

(* C3 witness: a successful call with two descriptors that changed the     *)
(* document.                                                               *)
C3_Witness ==
    /\ op[W] = "RemoveServers"
    /\ Len(args[W]) = 2
    /\ Succeeded
    /\ hist[W].backups = 1
    /\ hist[W].replaced = 1
    /\ files.cfg # Pre.cfg

(* C4: after RemoveServers succeeds, the server entries of the document    *)
(* are the original entries minus those some descriptor matches, so their  *)
(* number is the original number minus the number of matched entries;      *)
(* descriptors that match nothing do not make the call fail.               *)
C4_BatchRemovesExactlyTheMatched ==
    (op[W] = "RemoveServers" /\ args[W] # <<>> /\ Succeeded) =>
        /\ files.cfg.st = "full"
        /\ EntriesOf(files.cfg.doc) = EntriesOf(Pre.cfg.doc) \ MatchedBy(args[W], Pre.cfg.doc)
        /\ Cardinality(EntriesOf(files.cfg.doc)) =
              Cardinality(EntriesOf(Pre.cfg.doc)) - Cardinality(MatchedBy(args[W], Pre.cfg.doc))

(* C4 witness: of two descriptors one matches an entry and the other       *)
(* matches nothing; the call succeeded and other entries remain.           *)
C4_Witness ==
    /\ op[W] = "RemoveServers"
    /\ Len(args[W]) = 2
    /\ Succeeded
    /\ Cardinality(MatchedBy(args[W], Pre.cfg.doc)) = 1
    /\ \E i \in 1..2 : MatchedBy(<< args[W][i] >>, Pre.cfg.doc) = {}
    /\ EntriesOf(files.cfg.doc) # {}

(* C5: RemoveServers with an empty list returns nil and has touched        *)
(* nothing: every file is as it was (no backup file, no temp file, the     *)
(* config file not rewritten), nothing was read and nothing printed.       *)
C5_EmptyListTouchesNothing ==
    (op[W] = "RemoveServers" /\ args[W] = <<>> /\ pc[W] # "idle") =>
        /\ Succeeded
        /\ files = Pre
        /\ loc[W] = NoLocals
        /\ hist[W].backups = 0
        /\ hist[W].replaced = 0
        /\ hist[W].printed = 0

(* C5 witness: the call returned nil although the config file does not     *)
(* exist.                                                                  *)
C5_Witness ==
    /\ op[W] = "RemoveServers"
    /\ args[W] = <<>>
    /\ Succeeded
    /\ Pre.cfg = Absent

(* The members of an object sorted by key, at every depth: two documents   *)
(* hold the same data exactly when this makes them equal.  Numbers are     *)
(* left as written.                                                        *)
RECURSIVE Canon(_)
Canon(v) ==
    CASE v.t = "obj" ->
           LET ks == SortedKeys(KeysOf(v.kv))
           IN  Obj([i \in 1..Len(ks) |-> KV(ks[i], Canon(v.kv[LastIndex(v.kv, ks[i])].v))])
      [] v.t = "arr" -> Arr([i \in 1..Len(v.kv) |-> Canon(v.kv[i].v)])
      [] OTHER -> v

SameData(d1, d2) == Canon(d1) = Canon(d2)

WithoutMember(v, k) == Obj(SelectSeq(v.kv, LAMBDA e : e.k # k))

WithMember(v, k, new) ==
    Obj([i \in 1..Len(v.kv) |-> IF v.kv[i].k = k THEN KV(k, new) ELSE v.kv[i]])

(* Document d with the one member server.name taken out of the mapping the *)
(* descriptor selects, and nothing else changed; d itself where there is   *)
(* no such mapping.                                                        *)
Without(d, server) ==
    IF ~IsMapping(MappingAt(d, server.scope, server.projectPath)) THEN d
    ELSE LET shrunk ==
                 WithoutMember(MappingAt(d, server.scope, server.projectPath)[1], server.name)
         IN  IF server.scope = "global" THEN WithMember(d, "mcpServers", shrunk)
             ELSE LET projects == Field(d, "projects")[1]
                      project == Field(projects, server.projectPath)[1]
                  IN  WithMember(d, "projects",
                          WithMember(projects, server.projectPath,
                              WithMember(project, "mcpServers", shrunk)))

(* C6: a RemoveServer whose descriptor matches no entry of the document    *)
(* (the name, the project path or the mcpServers mapping is absent) that   *)
(* returns nil leaves the document's data as it was: the same keys with    *)
(* the same values; and removing again changes nothing.                    *)
C6_AbsentIsNoOp ==
    (op[W] = "RemoveServer" /\ Succeeded /\ MatchedBy(args[W], Pre.cfg.doc) = {}) =>
        /\ SameData(files.cfg.doc, Pre.cfg.doc)
        /\ NewContent(files.cfg, args[W]) = files.cfg

(* Removing again the descriptor just removed rewrites the same document.  *)
RemoveTwiceIsRemoveOnce ==
    (op[W] = "RemoveServer" /\ Succeeded) => NewContent(files.cfg, args[W]) = files.cfg

(* C7: a RemoveServer that finds its entry deletes only the key            *)
(* descriptor.name of the mapping the descriptor's scope selects; every    *)
(* other key of the document (a same-named server of another scope or      *)
(* project, a field the typed model does not know) keeps its value.        *)
C7_OnlyTheNamedKeyGoes ==
    (op[W] = "RemoveServer" /\ Succeeded /\ MatchedBy(args[W], Pre.cfg.doc) # {}) =>
        SameData(files.cfg.doc, Without(Pre.cfg.doc, args[W][1]))

(* The keys of the document are those C7 asks for (their values apart).    *)
RECURSIVE Shape(_)
Shape(v) ==
    CASE v.t = "obj" ->
           LET ks == SortedKeys(KeysOf(v.kv))
           IN  Obj([i \in 1..Len(ks) |-> KV(ks[i], Shape(v.kv[LastIndex(v.kv, ks[i])].v))])
      [] v.t = "arr" -> Arr([i \in 1..Len(v.kv) |-> Shape(v.kv[i].v)])
      [] v.t = "num" -> Num(FALSE, 0)
      [] OTHER -> v

(* What holds of C6 and C7: every key other than the named one is kept,    *)
(* and every value that is not a number is kept.                           *)
OnlyTheNamedKeyGoesNumbersApart ==
    (op[W] = "RemoveServer" /\ Succeeded) =>
        Shape(files.cfg.doc) = Shape(Without(Pre.cfg.doc, args[W][1]))

(* C8: a removal never deletes a container: every mcpServers mapping of    *)
(* the document, the projects mapping and every project entry are still    *)
(* there, as mappings, after RemoveServer or RemoveServers succeeds.       *)
C8_ContainersStay ==
    (Removing /\ Succeeded) =>
        LET old == Pre.cfg.doc
            new == files.cfg.doc
        IN  /\ IsMapping(Field(old, "mcpServers")) => IsMapping(Field(new, "mcpServers"))
            /\ IsMapping(Field(old, "projects")) => IsMapping(Field(new, "projects"))
            /\ ProjectsOf(new) = ProjectsOf(old)
            /\ \A path \in ProjectsOf(old) :
                  /\ IsMapping(Field(Field(old, "projects")[1], path)) =>
                        IsMapping(Field(Field(new, "projects")[1], path))
                  /\ IsMapping(MappingAt(old, "project", path)) =>
                        IsMapping(MappingAt(new, "project", path))

(* C8 witness: RemoveServer removed the only entry of a project's mapping, *)
(* which is now the empty mapping.                                         *)
C8_Witness ==
    /\ op[W] = "RemoveServer"
    /\ Succeeded
    /\ args[W][1].scope = "project"
    /\ NamesAt(Pre.cfg.doc, "project", args[W][1].projectPath) = {args[W][1].name}
    /\ MappingAt(files.cfg.doc, "project", args[W][1].projectPath) = << Obj(<<>>) >>

KeySeq(v) == [i \in 1..Len(v.kv) |-> v.kv[i].k]

(* The keys that new still has appear in new in the order they had in old, *)
(* in every object down the tree.                                          *)
RECURSIVE OrderKept(_, _)
OrderKept(old, new) ==
    CASE new.t = "obj" /\ old.t = "obj" ->
           /\ KeySeq(new) = SelectSeq(KeySeq(old), LAMBDA k : k \in KeysOf(new.kv))
           /\ \A i \in 1..Len(new.kv) :
                 OrderKept(Field(old, new.kv[i].k)[1], new.kv[i].v)
      [] new.t = "arr" /\ old.t = "arr" /\ Len(new.kv) = Len(old.kv) ->
           \A i \in 1..Len(new.kv) : OrderKept(old.kv[i].v, new.kv[i].v)
      [] OTHER -> TRUE

(* The keys of every object are in ascending byte order.                   *)
RECURSIVE Ascending(_)
Ascending(v) ==
    /\ v.t = "obj" =>
          \A i \in 1..(Len(v.kv) - 1) : KeyRank(v.kv[i].k) < KeyRank(v.kv[i + 1].k)
    /\ \A i \in 1..Len(v.kv) : Ascending(v.kv[i].v)

C10_BackupCopiesOrFails ==
    (op[W] = "Backup" /\ Done) =>
        /\ Pre.cfg = Absent => ret[W].err = "failed to read config for backup"
        /\ loc[W].content = NotRead =>
              /\ ret[W].err = "failed to read config for backup"
              /\ ret[W].backupPath = -1
              /\ files = Pre
        /\ Succeeded =>
              /\ ret[W].backupPath \in Seconds
              /\ ret[W].backupPath <= FormatTimestamp(now)
              /\ files.bak[ret[W].backupPath] = Pre.cfg
              /\ files = [Pre EXCEPT !.bak[ret[W].backupPath] = Pre.cfg]

(* C10 witness: a backup taken in the second after the first, of a source  *)
(* whose bytes are not what re-encoding them would give.                   *)
C10_Witness ==
    /\ op[W] = "Backup"
    /\ Succeeded
    /\ ret[W].backupPath = 1
    /\ Pre.cfg.st = "full"
    /\ UnmarshalOk(Pre.cfg)
    /\ Full(Encode(Decode(Pre.cfg.doc))) # Pre.cfg
    /\ files.bak[1] = Pre.cfg

(***************************************************************************)
(* The typed reader: Load, parseServers, GlobalServers, ProjectServers.    *)
(*                                                                         *)
(* json.Unmarshal(data, &cfg.raw) decodes into rawConfig: a member whose   *)
(* key names no field is skipped; a member of a struct is decoded into its *)
(* field in document order (a later member of the same key decodes into    *)
(* the same field); null leaves a string as it is and makes a map or a     *)
(* slice nil; a value of the wrong JSON type is an UnmarshalTypeError.     *)
(* A nil map, a nil slice and an empty one are all written << >>.          *)
(***************************************************************************)

IsString(v) == v.t \in {"str", "null"}

IsStrings(v) ==
    v.t = "null" \/ (v.t = "arr" /\ \A i \in 1..Len(v.kv) : IsString(v.kv[i].v))

IsStringMap(v) ==
    v.t = "null" \/ (v.t = "obj" /\ \A i \in 1..Len(v.kv) : IsString(v.kv[i].v))

(* The members of value v decode into rawServerConfig without a type error. *)
ServerOk(v) ==
    \/ v.t = "null"
    \/ /\ v.t = "obj"
       /\ \A i \in 1..Len(v.kv) :
             LET e == v.kv[i] IN
             CASE e.k \in {"type", "command", "url"} -> IsString(e.v)
               [] e.k = "args" -> IsStrings(e.v)
               [] e.k \in {"env", "headers"} -> IsStringMap(e.v)
               [] OTHER -> TRUE

ServerMapOk(v) ==
    v.t = "null" \/ (v.t = "obj" /\ \A i \in 1..Len(v.kv) : ServerOk(v.kv[i].v))

ProjectOk(v) ==
    \/ v.t = "null"
    \/ /\ v.t = "obj"
       /\ \A i \in 1..Len(v.kv) : v.kv[i].k = "mcpServers" => ServerMapOk(v.kv[i].v)

ProjectMapOk(v) ==
    v.t = "null" \/ (v.t = "obj" /\ \A i \in 1..Len(v.kv) : ProjectOk(v.kv[i].v))

(* Mutant: bytes that do not decode are taken for an empty document.        *)
UnmarshalRawOk_Lenient(c) == TRUE

(* json.Unmarshal(data, &cfg.raw) returns nil.                              *)
UnmarshalRawOk(c) ==
    /\ c.st = "full"
    /\ \/ c.doc.t = "null"
       \/ /\ c.doc.t = "obj"
          /\ \A i \in 1..Len(c.doc.kv) :
                LET e == c.doc.kv[i] IN
                CASE e.k = "mcpServers" -> ServerMapOk(e.v)
                  [] e.k = "projects" -> ProjectMapOk(e.v)
                  [] OTHER -> TRUE

(* The zero rawServerConfig.                                                *)
ZeroServer ==
    [type |-> "", command |-> "", args |-> <<>>, env |-> <<>>, url |-> "",
     headers |-> <<>>]

(* A string decoded into a string that held old.                            *)
DecodeString(v, old) == IF v.t = "str" THEN v.s ELSE old

(* map[string]string: each key holds what its last member decodes to.       *)
DecodeStringMap(v, old) ==
    IF v.t # "obj" THEN <<>>
    ELSE [k \in (DOMAIN old) \cup KeysOf(v.kv) |->
            IF k \in KeysOf(v.kv) THEN DecodeString(v.kv[LastIndex(v.kv, k)].v, "")
            ELSE old[k]]

(* One member of a server entry, decoded into its field of acc.             *)
SetServerField(acc, e) ==
    CASE e.k = "type" -> [acc EXCEPT !.type = DecodeString(e.v, @)]
      [] e.k = "command" -> [acc EXCEPT !.command = DecodeString(e.v, @)]
      [] e.k = "url" -> [acc EXCEPT !.url = DecodeString(e.v, @)]
      [] e.k = "args" ->
           [acc EXCEPT !.args =
               IF e.v.t # "arr" THEN <<>>
               ELSE [i \in 1..Len(e.v.kv) |-> DecodeString(e.v.kv[i].v, "")]]
      [] e.k = "env" -> [acc EXCEPT !.env = DecodeStringMap(e.v, @)]
      [] e.k = "headers" -> [acc EXCEPT !.headers = DecodeStringMap(e.v, @)]
      [] OTHER -> acc

(* rawServerConfig: a fresh map element, the members decoded in order.      *)
DecodeServer(v) ==
    LET RECURSIVE Fold(_, _)
        Fold(i, acc) ==
            IF i > Len(v.kv) THEN acc ELSE Fold(i + 1, SetServerField(acc, v.kv[i]))
    IN  IF v.t = "obj" THEN Fold(1, ZeroServer) ELSE ZeroServer

(* map[string]rawServerConfig decoded into a field that held old: null     *)
(* makes it nil, an object adds its keys to those old has.                 *)
DecodeServerMap(v, old) ==
    IF v.t # "obj" THEN <<>>
    ELSE [k \in (DOMAIN old) \cup KeysOf(v.kv) |->
            IF k \in KeysOf(v.kv) THEN DecodeServer(v.kv[LastIndex(v.kv, k)].v)
            ELSE old[k]]

(* rawProjectConfig.                                                        *)
DecodeProject(v) ==
    LET RECURSIVE Fold(_, _)
        Fold(i, acc) ==
            IF i > Len(v.kv) THEN acc
            ELSE Fold(i + 1,
                      IF v.kv[i].k = "mcpServers"
                      THEN [acc EXCEPT !.mcpServers = DecodeServerMap(v.kv[i].v, @)]
                      ELSE acc)
    IN  IF v.t = "obj" THEN Fold(1, [mcpServers |-> <<>>]) ELSE [mcpServers |-> <<>>]

DecodeProjectMap(v, old) ==
    IF v.t # "obj" THEN <<>>
    ELSE [k \in (DOMAIN old) \cup KeysOf(v.kv) |->
            IF k \in KeysOf(v.kv) THEN DecodeProject(v.kv[LastIndex(v.kv, k)].v)
            ELSE old[k]]

(* rawConfig: what cfg.raw holds after a successful Unmarshal.              *)
DecodeRawConfig(v) ==
    LET RECURSIVE Fold(_, _)
        Fold(i, acc) ==
            IF i > Len(v.kv) THEN acc
            ELSE Fold(i + 1,
                      CASE v.kv[i].k = "mcpServers" ->
                             [acc EXCEPT !.mcpServers = DecodeServerMap(v.kv[i].v, @)]
                        [] v.kv[i].k = "projects" ->
                             [acc EXCEPT !.projects = DecodeProjectMap(v.kv[i].v, @)]
                        [] OTHER -> acc)
        zero == [mcpServers |-> <<>>, projects |-> <<>>]
    IN  IF v.t = "obj" THEN Fold(1, zero) ELSE zero

(* Mutant: the scope and the project path of an entry are not recorded.     *)
parseServer_ScopeDropped(name, raw, scope, projectPath) ==
    [name |-> name,
     type |-> IF raw.type = "http" THEN "http" ELSE "stdio",
     typeStr |-> raw.type,
     command |-> raw.command,
     args |-> raw.args,
     env |-> raw.env,
     url |-> raw.url,
     headers |-> raw.headers,
     scope |-> "global",
     projectPath |-> ""]

(* parseServer: the typed descriptor of one raw entry.                      *)
parseServer(name, raw, scope, projectPath) ==
    [name |-> name,
     type |-> IF raw.type = "http" THEN "http" ELSE "stdio",
     typeStr |-> raw.type,
     command |-> raw.command,
     args |-> raw.args,
     env |-> raw.env,
     url |-> raw.url,
     headers |-> raw.headers,
     scope |-> scope,
     projectPath |-> projectPath]

(* The orders in which a range loop may visit the keys of a map.            *)
Perms(S) ==
    { q \in SeqsUpTo(S, Cardinality(S)) :
        Len(q) = Cardinality(S) /\ \A i, j \in 1..Len(q) : q[i] = q[j] => i = j }

(* The choices a run of parseServers makes: the order of the global names,  *)
(* the order of the project paths, for each project the order of its names. *)
RangeOrders(raw) ==
    { [global |-> g, paths |-> ps, names |-> f] :
        g \in Perms(DOMAIN raw.mcpServers),
        ps \in Perms(DOMAIN raw.projects),
        f \in { h \in [DOMAIN raw.projects ->
                         UNION {Perms(DOMAIN raw.projects[pp].mcpServers)
                                  : pp \in DOMAIN raw.projects}] :
                  \A pp \in DOMAIN raw.projects :
                      h[pp] \in Perms(DOMAIN raw.projects[pp].mcpServers) } }

(* c.serverMap after the appends: each name holds the server written last.  *)
ServerMapOf(servers) ==
    [n \in {servers[i].name : i \in 1..Len(servers)} |->
        servers[CHOOSE i \in 1..Len(servers) :
                   /\ servers[i].name = n
                   /\ \A j \in (i + 1)..Len(servers) : servers[j].name # n]]

(* parseServers: c.servers, the global entries first, then each project's.  *)
parseServers(raw, order) ==
    LET RECURSIVE Projects(_)
        Projects(ps) ==
            IF ps = <<>> THEN <<>>
            ELSE LET path == Head(ps)
                     names == order.names[path]
                 IN  [i \in 1..Len(names) |->
                         parseServer(names[i], raw.projects[path].mcpServers[names[i]],
                                     "project", path)]
                     \o Projects(Tail(ps))
    IN  [i \in 1..Len(order.global) |->
            parseServer(order.global[i], raw.mcpServers[order.global[i]], "global", "")]
        \o Projects(order.paths)

(* GlobalServers and ProjectServers: the servers of one scope, in order.    *)
GlobalServers(cfg) == SelectSeq(cfg.servers, LAMBDA s : s.scope = "global")

ProjectServers(cfg, projectPath) ==
    SelectSeq(cfg.servers,
              LAMBDA s : s.scope = "project" /\ s.projectPath = projectPath)

(* The *Config that Load returns: nil, or the store with its fields.        *)
NilConfig ==
    [nil |-> TRUE, servers |-> <<>>, serverMap |-> <<>>, rawContent |-> NotRead]

NewConfig(servers, content) ==
    [nil |-> FALSE, servers |-> servers, serverMap |-> ServerMapOf(servers),
     rawContent |-> content]

(* Documents for the typed reader: those of the writer, and: values of the  *)
(* wrong type where the typed model expects a mapping, a string or a        *)
(* project; one name twice in one mapping; a project whose path is the      *)
(* empty string.                                                            *)
LoadDocuments ==
    Documents \cup
    { Obj(<< KV("mcpServers", Num(FALSE, 1)) >>),
      Obj(<< KV("mcpServers", Obj(<< KV("a", Obj(<< KV("type", Num(FALSE, 1)) >>)) >>)) >>),
      Obj(<< KV("projects", Obj(<< KV("/p", Str("x")) >>)) >>),
      Obj(<< KV("mcpServers", Obj(<< KV("a", ServerEntry("a", "g")),
                                     KV("a", ServerEntry("b", "h")) >>)) >>),
      Obj(<< KV("mcpServers", Mapping(<< "a" >>, "g")),
             KV("projects",
                Obj(<< KV("", Obj(<< KV("mcpServers", Mapping(<< "a", "b" >>, "e")) >>)),
                       KV("/p", Obj(<< KV("mcpServers", Null) >>)) >>)) >>) }

LoadContents == {Absent, Invalid} \cup {Full(d) : d \in LoadDocuments}

InitLoad ==
    /\ files \in {InitFiles(c) : c \in LoadContents}
    /\ now = 0
    /\ pc = [p \in Procs |-> "idle"]
    /\ op = [p \in Procs |-> "none"]
    /\ args = [p \in Procs |-> <<>>]
    /\ loc = [p \in Procs |-> NoLocals]
    /\ ret = [p \in Procs |-> [err |-> "", cfg |-> NilConfig]]
    /\ hist = [p \in Procs |-> NewHist(files)]
    /\ observed = NotRead

LoadReturns(p, e, cfg) ==
    /\ pc' = [pc EXCEPT ![p] = "done"]
    /\ ret' = [ret EXCEPT ![p] = [err |-> e, cfg |-> cfg]]

(* Load(path) is called.                                                    *)
CallLoad(p) ==
    /\ pc[p] = "idle"
    /\ pc' = [pc EXCEPT ![p] = "ld_read"]
    /\ op' = [op EXCEPT ![p] = "Load"]
    /\ hist' = [hist EXCEPT ![p] = NewHist(files)]
    /\ UNCHANGED << files, now, args, loc, ret, observed >>

(* os.ReadFile(path): no such file returns the empty store; another read    *)
(* error returns nil and the error; else the bytes are kept in rawContent.  *)
LdRead(p) ==
    /\ pc[p] = "ld_read"
    /\ \/ /\ ~Exists(files.cfg)
          /\ LoadReturns(p, "", NewConfig(<<>>, NotRead))
          /\ UNCHANGED loc
       \/ /\ Exists(files.cfg)
          /\ LoadReturns(p, "read error", NilConfig)
          /\ UNCHANGED loc
       \/ /\ Exists(files.cfg)
          /\ loc' = [loc EXCEPT ![p].content = files.cfg]
          /\ Goto(p, "ld_parse")
    /\ UNCHANGED << files, now, op, args, hist, observed >>

(* json.Unmarshal and parseServers.                                         *)
LdParse(p) ==
    /\ pc[p] = "ld_parse"
    /\ \/ /\ ~UnmarshalRawOk(loc[p].content)
          /\ LoadReturns(p, "unmarshal error", NilConfig)
       \/ /\ UnmarshalRawOk(loc[p].content)
          /\ LET raw == DecodeRawConfig(loc[p].content.doc) IN
             \E order \in RangeOrders(raw) :
                 LoadReturns(p, "", NewConfig(parseServers(raw, order), loc[p].content))
    /\ UNCHANGED << files, now, op, args, loc, hist, observed >>

NextLoad == CallLoad("p1") \/ LdRead("p1") \/ LdParse("p1")

LoadSpec == InitLoad /\ [][NextLoad]_vars

(* C11: Load of a path that does not exist returns an empty store and no    *)
(* error; Load of a file whose bytes are not a JSON text returns an error   *)
(* and a nil store; whenever Load returns an error the store is nil, with   *)
(* no server in it.                                                         *)
C11_LoadAbsentOrInvalid ==
    (op[W] = "Load" /\ Done) =>
        /\ Pre.cfg = Absent =>
              /\ ret[W].err = ""
              /\ ~ret[W].cfg.nil
              /\ ret[W].cfg.servers = <<>>
              /\ ret[W].cfg.serverMap = <<>>
        /\ Pre.cfg = Invalid =>
              /\ ret[W].err # ""
              /\ ret[W].cfg = NilConfig
        /\ ret[W].err # "" <=> ret[W].cfg.nil
        /\ ret[W].cfg.nil => ret[W].cfg.servers = <<>>

(* C11 witness: Load has read bytes that are no JSON text and returned the  *)
(* decoder's error with a nil store.                                        *)
C11_Witness ==
    /\ op[W] = "Load"
    /\ Done
    /\ Pre.cfg = Invalid
    /\ loc[W].content = Invalid
    /\ ret[W].err = "unmarshal error"
    /\ ret[W].cfg.nil

(* The (name, scope, projectPath) of a descriptor.                          *)
KeyOf(s) == [name |-> s.name, scope |-> s.scope, projectPath |-> s.projectPath]

Elems(q) == {q[i] : i \in 1..Len(q)}

(* Project paths to ask ProjectServers for: those of the documents and one  *)
(* that no document has.                                                    *)
AskedPaths == {"", "/p", "/q", "/r"}

(* C12: after a successful Load of a document, Servers() holds exactly one  *)
(* descriptor for each entry of the top-level mcpServers (scope global,     *)
(* empty projectPath) and one for each entry of each project's mcpServers   *)
(* (scope project, projectPath the project's path), entries of one name in  *)
(* different places all present; GlobalServers and ProjectServers(p), over  *)
(* all p, are disjoint and together are Servers().                          *)
C12_OneDescriptorPerEntry ==
    (op[W] = "Load" /\ Done /\ ret[W].err = "" /\ Pre.cfg.st = "full") =>
        LET cfg == ret[W].cfg
            d == Pre.cfg.doc
            servers == cfg.servers
            G == GlobalServers(cfg)
            P(path) == ProjectServers(cfg, path)
        IN  /\ \A i, j \in 1..Len(servers) : KeyOf(servers[i]) = KeyOf(servers[j]) => i = j
            /\ {KeyOf(s) : s \in Elems(servers)} = EntriesOf(d)
            /\ \A s \in Elems(servers) : s.scope = "global" => s.projectPath = ""
            /\ Elems(G) \cup UNION {Elems(P(path)) : path \in AskedPaths} = Elems(servers)
            /\ Len(G) = Cardinality(Elems(G))
            /\ \A path \in AskedPaths :
                  /\ Len(P(path)) = Cardinality(Elems(P(path)))
                  /\ Elems(G) \cap Elems(P(path)) = {}
                  /\ {KeyOf(s) : s \in Elems(P(path))}
                        = {e \in EntriesOf(d) : e.scope = "project" /\ e.projectPath = path}
                  /\ \A other \in AskedPaths \ {path} :
                        Elems(P(path)) \cap Elems(P(other)) = {}
            /\ {KeyOf(s) : s \in Elems(G)} = {e \in EntriesOf(d) : e.scope = "global"}

(* C12 witness: a loaded document with the name a at the top level and in   *)
(* two projects: three descriptors of that name, one entry in the lookup.   *)
C12_Witness ==
    /\ op[W] = "Load"
    /\ Done
    /\ ret[W].err = ""
    /\ Cardinality({i \in 1..Len(ret[W].cfg.servers) : ret[W].cfg.servers[i].name = "a"}) = 3
    /\ Len(GlobalServers(ret[W].cfg)) = 2
    /\ Len(ProjectServers(ret[W].cfg, "/p")) = 1
    /\ Len(ProjectServers(ret[W].cfg, "/q")) = 1
    /\ DOMAIN ret[W].cfg.serverMap = {"a", "b"}

(***************************************************************************)
(* The transcript parser.  A Go string is the sequence of its characters.  *)
(***************************************************************************)

(* "mcp__" and "__".                                                        *)
McpPrefix == << "m", "c", "p", "_", "_" >>

Delimiter == << "_", "_" >>

(* strings.HasPrefix(s, prefix).                                            *)
HasPrefix(s, prefix) == Len(s) >= Len(prefix) /\ SubSeq(s, 1, Len(prefix)) = prefix

(* strings.TrimPrefix(s, prefix).                                           *)
TrimPrefix(s, prefix) ==
    IF HasPrefix(s, prefix) THEN SubSeq(s, Len(prefix) + 1, Len(s)) ELSE s

(* The byte offsets (from 0) at which substr occurs in s.                   *)
Occurrences(s, substr) ==
    { i \in 0..(Len(s) - Len(substr)) : SubSeq(s, i + 1, i + Len(substr)) = substr }

(* strings.Index(s, substr): the first offset, -1 for none.                 *)
Index(s, substr) ==
    IF Occurrences(s, substr) = {} THEN -1
    ELSE CHOOSE i \in Occurrences(s, substr) : \A j \in Occurrences(s, substr) : i <= j

(* strings.LastIndex(s, substr).                                            *)
LastIndexOf(s, substr) ==
    IF Occurrences(s, substr) = {} THEN -1
    ELSE CHOOSE i \in Occurrences(s, substr) : \A j \in Occurrences(s, substr) : i >= j

NotOk == [server |-> <<>>, tool |-> <<>>, ok |-> FALSE]

(* Mutant: the name is split at the last "__" of the remainder.             *)
ExtractServerName_LastDelimiter(toolName) ==
    IF ~HasPrefix(toolName, McpPrefix) THEN NotOk
    ELSE LET rest == TrimPrefix(toolName, McpPrefix)
             idx == LastIndexOf(rest, Delimiter)
         IN  IF idx = -1 \/ idx = 0 THEN NotOk
             ELSE LET server == SubSeq(rest, 1, idx)
                      tool == SubSeq(rest, idx + 3, Len(rest))
                  IN  IF server = <<>> \/ tool = <<>> THEN NotOk
                      ELSE [server |-> server, tool |-> tool, ok |-> TRUE]

(* ExtractServerName(toolName): (serverName, toolName, ok).                 *)
ExtractServerName(toolName) ==
    IF ~HasPrefix(toolName, McpPrefix) THEN NotOk
    ELSE LET rest == TrimPrefix(toolName, McpPrefix)
             idx == Index(rest, Delimiter)
         IN  IF idx = -1 \/ idx = 0 THEN NotOk
             ELSE LET server == SubSeq(rest, 1, idx)
                      tool == SubSeq(rest, idx + 3, Len(rest))
                  IN  IF server = <<>> \/ tool = <<>> THEN NotOk
                      ELSE [server |-> server, tool |-> tool, ok |-> TRUE]

(* The longest remainder (the text after the prefix) of a tool name.        *)
MaxRest == 7

(* Tool names: nothing, "mcp__", "mcp_", "xmcp__" or "Read" followed by     *)
(* every text of a's and underscores up to MaxRest characters.              *)
ToolNames ==
    { prefix \o rest :
        prefix \in { <<>>, McpPrefix, << "m", "c", "p", "_" >>, << "x" >> \o McpPrefix,
                     << "R", "e", "a", "d" >> },
        rest \in SeqsUpTo({"a", "_"}, MaxRest) }

(* A frame of a function that touches neither a file nor the clock.         *)
InitPure(call, inputs) ==
    /\ files = InitFiles(Absent)
    /\ now = 0
    /\ pc = [p \in Procs |-> "idle"]
    /\ op = [p \in Procs |-> call]
    /\ args \in [Procs -> inputs]
    /\ loc = [p \in Procs |-> NoLocals]
    /\ ret = [p \in Procs |-> NoReturn]
    /\ hist = [p \in Procs |-> NewHist(files)]
    /\ observed = NotRead

InitExtract == InitPure("ExtractServerName", ToolNames)

(* The call returns.                                                        *)
ExtractStep(p) ==
    /\ pc[p] = "idle"
    /\ pc' = [pc EXCEPT ![p] = "done"]
    /\ ret' = [ret EXCEPT ![p] = ExtractServerName(args[p])]
    /\ UNCHANGED << files, now, op, args, loc, hist, observed >>

NextExtract == ExtractStep("p1")

ExtractSpec == InitExtract /\ [][NextExtract]_vars

(* C13: ExtractServerName(name) succeeds exactly when name starts with      *)
(* mcp__, the first __ of the remainder is at an offset greater than zero   *)
(* and text follows it; then server is the text before that first __, tool  *)
(* all the text after it, and mcp__ server __ tool is the name; when it     *)
(* fails both strings are empty.                                            *)
C13_ExtractSplitsAtFirstDelimiter ==
    (op[W] = "ExtractServerName" /\ Done) =>
        LET name == args[W]
            r == ret[W]
            rest == SubSeq(name, Len(McpPrefix) + 1, Len(name))
            cuts == Occurrences(rest, Delimiter)
            first == CHOOSE i \in cuts : \A j \in cuts : i <= j
        IN  /\ r.ok <=> /\ Len(name) >= Len(McpPrefix)
                        /\ \A i \in 1..Len(McpPrefix) : name[i] = McpPrefix[i]
                        /\ cuts # {}
                        /\ first > 0
                        /\ first + 2 < Len(rest)
            /\ r.ok =>
                  /\ r.server = [i \in 1..first |-> rest[i]]
                  /\ r.tool = [i \in 1..(Len(rest) - first - 2) |-> rest[first + 2 + i]]
                  /\ McpPrefix \o r.server \o Delimiter \o r.tool = name
                  /\ r.server # <<>> /\ r.tool # <<>>
                  /\ Occurrences(r.server, Delimiter) = {}
            /\ ~r.ok => r.server = <<>> /\ r.tool = <<>>

(* C13 witness: mcp__a__a__a splits into the server a and the tool a__a.    *)
C13_Witness ==
    /\ op[W] = "ExtractServerName"
    /\ Done
    /\ args[W] = McpPrefix \o << "a", "_", "_", "a", "_", "_", "a" >>
    /\ ret[W] = [server |-> << "a" >>, tool |-> << "a", "_", "_", "a" >>, ok |-> TRUE]

(***************************************************************************)
(* ParseLine.  A line of a transcript is blank, bytes that are no JSON     *)
(* text, or a JSON text.  A string inside a JSON text is written as one    *)
(* name; Chars gives the characters of those that ExtractServerName reads, *)
(* ParseTime the instant of those that time.Parse reads.                   *)
(*                                                                         *)
(* Instants are counted in days, 2025-01-01T00:00:00Z being day 1; the     *)
(* zero time.Time, the "unset" timestamp, is ZeroTime, earlier than every  *)
(* instant a transcript records.                                           *)
(***************************************************************************)
ZeroTime == 0

Blank == [st |-> "blank", doc |-> Null]

(* The characters of a tool name.                                           *)
Chars(name) ==
    CASE name = "mcp__a__t" -> McpPrefix \o << "a", "_", "_", "t" >>
      [] name = "mcp__b__u__v" -> McpPrefix \o << "b", "_", "_", "u", "_", "_", "v" >>
      [] name = "mcp__a" -> McpPrefix \o << "a" >>
      [] name = "Read" -> << "R", "e", "a", "d" >>
      [] OTHER -> <<>>

(* time.Parse(time.RFC3339, text), then time.Parse(time.RFC3339Nano, text): *)
(* the first layout already reads a fraction of a second after the seconds, *)
(* so the two succeed and fail together; a text in neither form, and the    *)
(* empty text that is not parsed at all, give the zero time.                *)
ParseTime(text) ==
    CASE text = "2025-01-10T00:00:00Z" -> 10
      [] text = "2025-03-11T00:00:00Z" -> 70
      [] text = "2025-04-03T00:00:00.000Z" -> 93
      [] text = "2025-04-09T00:00:00Z" -> 99
      [] OTHER -> ZeroTime

(* The string a struct field holds after its members are decoded in order:  *)
(* that of the last member of the key that is a string (null changes        *)
(* nothing), "" when there is none.                                         *)
StringField(v, key) ==
    LET at == IF v.t = "obj"
              THEN {i \in 1..Len(v.kv) : v.kv[i].k = key /\ v.kv[i].v.t = "str"}
              ELSE {}
    IN  IF at = {} THEN ""
        ELSE v.kv[CHOOSE i \in at : \A j \in at : j <= i].v.s

(* json.Unmarshal([]byte(line), &entry) returns nil: the text is null or an *)
(* object whose type, timestamp and uuid are strings and whose message is   *)
(* an object with a string role; content is kept raw, whatever it is.       *)
LogEntryOk(line) ==
    /\ line.st = "full"
    /\ \/ line.doc.t = "null"
       \/ /\ line.doc.t = "obj"
          /\ \A i \in 1..Len(line.doc.kv) :
                LET e == line.doc.kv[i] IN
                CASE e.k \in {"type", "timestamp", "uuid"} -> IsString(e.v)
                  [] e.k = "message" ->
                       \/ e.v.t = "null"
                       \/ /\ e.v.t = "obj"
                          /\ \A j \in 1..Len(e.v.kv) :
                                e.v.kv[j].k = "role" => IsString(e.v.kv[j].v)
                  [] OTHER -> TRUE

(* entry.Message.ContentRaw: the value under message.content, none when     *)
(* there is no such member.                                                 *)
ContentRaw(doc) ==
    LET message == Field(doc, "message")
    IN  IF message = <<>> THEN <<>> ELSE Field(message[1], "content")

(* Mutant: an element that does not decode is passed over.                  *)
ContentOk_Lenient(raw) == TRUE

(* json.Unmarshal(ContentRaw, &entry.Message.Content) returns nil: every    *)
(* element is null or an object whose type, id and name are strings and     *)
(* whose input is an object.                                                *)
ContentOk(raw) ==
    \A i \in 1..Len(raw.kv) :
        LET c == raw.kv[i].v IN
        \/ c.t = "null"
        \/ /\ c.t = "obj"
           /\ \A j \in 1..Len(c.kv) :
                 CASE c.kv[j].k \in {"type", "id", "name"} -> IsString(c.kv[j].v)
                   [] c.kv[j].k = "input" -> c.kv[j].v.t \in {"obj", "null"}
                   [] OTHER -> TRUE

(* types.ToolCall.                                                          *)
ToolCall(server, tool, timestamp) ==
    [serverName |-> server, toolName |-> tool, timestamp |-> timestamp]

(* The loop over entry.Message.Content.                                     *)
RECURSIVE CallsOf(_, _)
CallsOf(elems, timestamp) ==
    IF elems = <<>> THEN <<>>
    ELSE LET c == Head(elems).v
             found == ExtractServerName(Chars(StringField(c, "name")))
         IN  (IF StringField(c, "type") = "tool_use" /\ found.ok
              THEN << ToolCall(found.server, found.tool, timestamp) >>
              ELSE <<>>)
             \o CallsOf(Tail(elems), timestamp)

(* ParseLine(line): the calls and the error ("" for nil).                   *)
ParseLine(line) ==
    IF line.st = "blank" THEN [calls |-> <<>>, err |-> ""]
    ELSE IF ~LogEntryOk(line) THEN [calls |-> <<>>, err |-> "failed to parse line"]
    ELSE LET raw == ContentRaw(line.doc)
             text == StringField(line.doc, "timestamp")
             timestamp == IF text # "" THEN ParseTime(text) ELSE ZeroTime
         IN  IF raw = <<>> \/ raw[1].t # "arr" THEN [calls |-> <<>>, err |-> ""]
             ELSE IF ~ContentOk(raw[1]) THEN [calls |-> <<>>, err |-> ""]
             ELSE [calls |-> CallsOf(raw[1].kv, timestamp), err |-> ""]

(* The longest content array of a line.                                     *)
MaxEntries == 2

ToolUse(name, input) ==
    Obj(<< KV("type", Str("tool_use")), KV("id", Str("x")), KV("name", Str(name)),
           KV("input", input) >>)

(* The elements of a content array: tool uses of four names; a text; an     *)
(* entry of another type that has a name; null; a number; a tool use whose  *)
(* input is a string.                                                       *)
EntryShapes ==
    { ToolUse(n, Obj(<<>>)) : n \in {"mcp__a__t", "mcp__b__u__v", "mcp__a", "Read"} }
      \cup { Obj(<< KV("type", Str("text")), KV("text", Str("hi")) >>),
             Obj(<< KV("type", Str("tool_result")), KV("name", Str("mcp__a__t")) >>),
             Null,
             Num(FALSE, 7),
             ToolUse("mcp__a__t", Str("x")) }

(* The value under message.content: none, a string, null, a number, an      *)
(* object, an array of up to MaxEntries elements.                           *)
ContentShapes ==
    { <<>>, << Str("hello") >>, << Null >>, << Num(FALSE, 7) >>,
      << ToolUse("mcp__a__t", Obj(<<>>)) >> }
      \cup { << Arr(q) >> : q \in SeqsUpTo(EntryShapes, MaxEntries) }

(* The value under timestamp: none, the empty string, a text that is no     *)
(* time, and times with and without a fraction of a second.                 *)
TimestampShapes ==
    { <<>>, << Str("") >>, << Str("yesterday") >>, << Str("2025-03-11T00:00:00Z") >>,
      << Str("2025-04-03T00:00:00.000Z") >> }

LogLine(timestamp, content) ==
    Obj(<< KV("type", Str("assistant")) >>
        \o << KV("message", Obj(<< KV("role", Str("assistant")) >> \o Member("content", content))) >>
        \o Member("timestamp", timestamp)
        \o << KV("uuid", Str("u")) >>)

(* The lines of a transcript: blank; no JSON text; null; a text that is no  *)
(* object; an entry without a message; a message or a timestamp of the      *)
(* wrong type; every combination of the shapes above.                       *)
Lines ==
    { Blank, Invalid, Full(Null), Full(Arr(<<>>)),
      Full(Obj(<< KV("type", Str("summary")) >>)),
      Full(Obj(<< KV("message", Str("x")) >>)),
      Full(Obj(<< KV("message", Obj(<< KV("content", Arr(<< ToolUse("mcp__a__t", Obj(<<>>)) >>)) >>)),
                  KV("timestamp", Num(FALSE, 7)) >>)) }
      \cup { Full(LogLine(ts, c)) : ts \in TimestampShapes, c \in ContentShapes }

InitParseLine == InitPure("ParseLine", Lines)

(* The call returns.                                                        *)
ParseLineStep(p) ==
    /\ pc[p] = "idle"
    /\ pc' = [pc EXCEPT ![p] = "done"]
    /\ ret' = [ret EXCEPT ![p] = ParseLine(args[p])]
    /\ UNCHANGED << files, now, op, args, loc, hist, observed >>

NextParseLine == ParseLineStep("p1")

ParseLineSpec == InitParseLine /\ [][NextParseLine]_vars

(* A content element is an invocation of a server's tool: its type is       *)
(* tool_use and its name decomposes by the mcp__ convention.                *)
IsMcpToolUse(c) ==
    /\ Field(c, "type") = << Str("tool_use") >>
    /\ Field(c, "name") # <<>>
    /\ Field(c, "name")[1].t = "str"
    /\ ExtractServerName(Chars(Field(c, "name")[1].s)).ok

(* The timestamp a line resolves to.                                        *)
ResolvedTimestamp(doc) ==
    IF Field(doc, "timestamp") = <<>> THEN ZeroTime
    ELSE ParseTime(Field(doc, "timestamp")[1].s)

(* One ToolCall for each invocation among the elements, in their order.     *)
ExpectedCalls(doc) ==
    LET elems == ContentRaw(doc)[1].kv
        hits == SelectSeq(elems, LAMBDA e : IsMcpToolUse(e.v))
    IN  [i \in 1..Len(hits) |->
            LET found == ExtractServerName(Chars(Field(hits[i].v, "name")[1].s))
            IN  ToolCall(found.server, found.tool, ResolvedTimestamp(doc))]

HasContentArray(doc) == ContentRaw(doc) # <<>> /\ ContentRaw(doc)[1].t = "arr"

(* Every element of the content array is null or an object whose type, id   *)
(* and name, where present, are strings or null and whose input, where      *)
(* present, is an object or null.                                           *)
ElementsDecode(doc) ==
    \A i \in 1..Len(ContentRaw(doc)[1].kv) :
        LET c == ContentRaw(doc)[1].kv[i].v IN
        \/ c.t = "null"
        \/ /\ c.t = "obj"
           /\ \A k \in {"type", "id", "name"} :
                 Field(c, k) # <<>> => Field(c, k)[1].t \in {"str", "null"}
           /\ Field(c, "input") # <<>> => Field(c, "input")[1].t \in {"obj", "null"}

(* C14 as stated: on a line that decodes as a log entry ParseLine returns,  *)
(* in content order, one ToolCall for each content element whose type is    *)
(* tool_use and whose name decomposes, each with the line's timestamp; if   *)
(* the content is no array the result is empty, with no error.              *)
C14_OneCallPerToolUse ==
    (op[W] = "ParseLine" /\ Done /\ args[W].st = "full" /\ ret[W].err = "") =>
        IF HasContentArray(args[W].doc)
        THEN ret[W].calls = ExpectedCalls(args[W].doc)
        ELSE ret[W].calls = <<>>

(* C14, amended: the above holds when every element of the content array    *)
(* decodes as a content entry; an array with an element that does not (a    *)
(* number, an entry whose input is a string) gives an empty result and no   *)
(* error, as does a content that is no array.                               *)
C14_OneCallPerToolUseWhenArrayDecodes ==
    (op[W] = "ParseLine" /\ Done /\ args[W].st = "full" /\ ret[W].err = "") =>
        IF HasContentArray(args[W].doc) /\ ElementsDecode(args[W].doc)
        THEN ret[W].calls = ExpectedCalls(args[W].doc)
        ELSE ret[W].calls = <<>>

(* C14 witness: a line with two invocations in its array, returned in order *)
(* with the one timestamp of the line.                                      *)
C14_Witness ==
    /\ op[W] = "ParseLine"
    /\ Done
    /\ ret[W].err = ""
    /\ Len(ret[W].calls) = 2
    /\ ret[W].calls[1].serverName = << "b" >>
    /\ ret[W].calls[1].toolName = << "u", "_", "_", "v" >>
    /\ ret[W].calls[2].serverName = << "a" >>
    /\ ret[W].calls[1].timestamp = 93
    /\ ret[W].calls[2].timestamp = 93

(***************************************************************************)
(* ParseFile and ParseDirectory.  In the specifications of the parser,     *)
(* files is what filepath.Walk finds under the root, in the lexical order  *)
(* in which it walks: the root first, each entry with                      *)
(*   kind      "dir" or "file"                                             *)
(*   jsonl     the name ends in ".jsonl"                                   *)
(*   readable  os.Open succeeds on it                                      *)
(*   walkErr   Walk hands the entry to its callback with an error (Lstat   *)
(*             or the reading of the directory failed; for the root: it    *)
(*             does not exist)                                             *)
(*   lines     the lines of a file; no line, no byte                       *)
(* and the frame of a call holds                                           *)
(*   loc  at (the entry visited), allCalls (of ParseDirectory), lineNum    *)
(*        and calls (lineNum and allCalls of ParseFile), fileRet (what     *)
(*        ParseFile returned to the callback), dirRet (what ParseDirectory *)
(*        returned to GetStats)                                            *)
(*   hist opened (the entries ParseFile was called on), failed (those it   *)
(*        returned an error for), faulted (those on which a system call    *)
(*        after os.Open failed), warnings (lines sent to os.Stderr),       *)
(*        cutoff (the cutoff FilterByPeriod computed, ZeroTime before)     *)
(***************************************************************************)

(* A line longer than the scanner's buffer may grow (10 MB).                *)
TooLong == [st |-> "toolong", doc |-> Null]

NoCalls == [calls |-> <<>>, err |-> ""]

ParserLocals ==
    [at |-> 0, allCalls |-> <<>>, lineNum |-> 0, calls |-> <<>>, fileRet |-> NoCalls,
     dirRet |-> NoCalls]

ParserHist ==
    [opened |-> {}, failed |-> {}, faulted |-> {}, warnings |-> 0, cutoff |-> ZeroTime]

Dir(walkErr) ==
    [kind |-> "dir", jsonl |-> FALSE, readable |-> TRUE, walkErr |-> walkErr, lines |-> <<>>]

File(jsonl, readable, lines) ==
    [kind |-> "file", jsonl |-> jsonl, readable |-> readable, walkErr |-> FALSE,
     lines |-> lines]

(* A line with one invocation of a tool of server a or b.                   *)
CallLine(name, timestamp) ==
    Full(LogLine(<< Str(timestamp) >>, << Arr(<< ToolUse(name, Obj(<<>>)) >>) >>))

(* The state in which a call of the parser starts.                          *)
InitParser(call, trees, inputs) ==
    /\ files \in trees
    /\ now = 0
    /\ pc = [p \in Procs |-> "idle"]
    /\ op = [p \in Procs |-> call]
    /\ args \in [Procs -> inputs]
    /\ loc = [p \in Procs |-> ParserLocals]
    /\ ret = [p \in Procs |-> NoCalls]
    /\ hist = [p \in Procs |-> ParserHist]
    /\ observed = NotRead

(* ParseFile returns: to its caller's caller when it was called itself, to  *)
(* the callback of the walk otherwise.                                      *)
FileReturns(p, calls, e, fault) ==
    /\ IF op[p] = "ParseFile"
       THEN /\ pc' = [pc EXCEPT ![p] = "done"]
            /\ ret' = [ret EXCEPT ![p] = [calls |-> calls, err |-> e]]
            /\ loc' = loc
       ELSE /\ pc' = [pc EXCEPT ![p] = "pd_after"]
            /\ loc' = [loc EXCEPT ![p].fileRet = [calls |-> calls, err |-> e]]
            /\ ret' = ret
    /\ hist' = [hist EXCEPT ![p].failed = IF e = "" THEN @ ELSE @ \cup {loc[p].at},
                            ![p].faulted = IF fault THEN @ \cup {loc[p].at} ELSE @]

(* ParseFile(filePath) is called on its own.                                *)
CallParseFile(p) ==
    /\ pc[p] = "idle"
    /\ op[p] = "ParseFile"
    /\ pc' = [pc EXCEPT ![p] = "pf_open"]
    /\ loc' = [loc EXCEPT ![p].at = args[p]]
    /\ hist' = [hist EXCEPT ![p].opened = {args[p]}]
    /\ UNCHANGED << files, now, op, args, ret, observed >>

(* os.Open, file.Stat and the size check.                                   *)
PfOpen(p) ==
    /\ pc[p] = "pf_open"
    /\ LET f == files[loc[p].at] IN
       \/ /\ ~f.readable
          /\ FileReturns(p, <<>>, "failed to open file", FALSE)
       \/ /\ f.readable
          /\ FileReturns(p, <<>>, "failed to stat file", TRUE)
       \/ /\ f.readable
          /\ f.lines = <<>>
          /\ FileReturns(p, <<>>, "", FALSE)
       \/ /\ f.readable
          /\ f.lines # <<>>
          /\ pc' = [pc EXCEPT ![p] = "pf_scan"]
          /\ loc' = [loc EXCEPT ![p].lineNum = 0, ![p].calls = <<>>]
          /\ UNCHANGED << ret, hist >>
    /\ UNCHANGED << files, now, op, args, observed >>

(* Mutant: a line that fails to parse throws away what was gathered.        *)
ScanLine_ResetsOnError(allCalls, line) ==
    IF ParseLine(line).err # "" THEN <<>> ELSE allCalls \o ParseLine(line).calls

(* The body of the scan loop: allCalls after one more line.                 *)
ScanLine(allCalls, line) ==
    IF ParseLine(line).err # "" THEN allCalls ELSE allCalls \o ParseLine(line).calls

(* One turn of scanner.Scan(): the next line is handed to ParseLine; or     *)
(* the scan stops, at the end of the file, at a line too long for the       *)
(* buffer, or at a read error.                                              *)
PfScan(p) ==
    /\ pc[p] = "pf_scan"
    /\ LET f == files[loc[p].at]
           n == loc[p].lineNum
       IN  \/ /\ n < Len(f.lines)
              /\ f.lines[n + 1] # TooLong
              /\ loc' = [loc EXCEPT ![p].lineNum = n + 1,
                                    ![p].calls = ScanLine(@, f.lines[n + 1])]
              /\ UNCHANGED << pc, ret, hist >>
           \/ /\ n = Len(f.lines)
              /\ FileReturns(p, loc[p].calls, "", FALSE)
           \/ /\ n < Len(f.lines)
              /\ f.lines[n + 1] = TooLong
              /\ FileReturns(p, loc[p].calls, "error reading file", FALSE)
           \/ FileReturns(p, loc[p].calls, "error reading file", TRUE)
    /\ UNCHANGED << files, now, op, args, observed >>

(* The longest file.                                                        *)
MaxLines == 3

(* The lines of the files: blank, no JSON text, too long for the scanner,   *)
(* one invocation of a tool of server a, one of server b, a message whose   *)
(* content is a string.                                                     *)
FileLines ==
    { Blank, Invalid, TooLong,
      CallLine("mcp__a__t", "2025-04-03T00:00:00.000Z"),
      CallLine("mcp__b__u__v", "2025-03-11T00:00:00Z"),
      Full(LogLine(<< Str("2025-04-03T00:00:00.000Z") >>, << Str("hello") >>)) }

(* The file ParseFile is called on: missing or unreadable, or readable with *)
(* up to MaxLines lines.                                                    *)
ParseFileTrees ==
    { << File(TRUE, FALSE, <<>>) >> }
      \cup { << File(TRUE, TRUE, lines) >> : lines \in SeqsUpTo(FileLines, MaxLines) }

InitParseFile == InitParser("ParseFile", ParseFileTrees, {1})

NextParseFile == CallParseFile("p1") \/ PfOpen("p1") \/ PfScan("p1")

ParseFileSpec == InitParseFile /\ [][NextParseFile]_vars

(* The calls of the lines that ParseLine accepts, in order.                 *)
RECURSIVE CallsOfLines(_)
CallsOfLines(lines) ==
    IF lines = <<>> THEN <<>>
    ELSE (IF ParseLine(Head(lines)).err = "" THEN ParseLine(Head(lines)).calls ELSE <<>>)
         \o CallsOfLines(Tail(lines))

(* The file at entry i can be read to its end: it opens, no line is too     *)
(* long for the scanner and no system call on it has failed.                *)
ReadableToEnd(i) ==
    /\ files[i].readable
    /\ \A n \in 1..Len(files[i].lines) : files[i].lines[n] # TooLong
    /\ i \notin hist[W].faulted

(* C15: ParseFile on a file that can be read to its end returns no error    *)
(* and the calls of exactly the lines that ParseLine accepts, in the order  *)
(* of the lines: a line that ParseLine rejects adds nothing and stops       *)
(* nothing after it.                                                        *)
C15_FileSkipsBadLines ==
    (op[W] = "ParseFile" /\ Done) =>
        /\ ReadableToEnd(1) <=> ret[W].err = ""
        /\ ReadableToEnd(1) => ret[W].calls = CallsOfLines(files[1].lines)

(* C15 witness: a file of three lines, the second no JSON text, returned    *)
(* the calls of the first and of the third.                                 *)
C15_Witness ==
    /\ op[W] = "ParseFile"
    /\ Done
    /\ ret[W].err = ""
    /\ Len(files[1].lines) = 3
    /\ files[1].lines[2] = Invalid
    /\ Len(ret[W].calls) = 2
    /\ ret[W].calls[1].serverName = << "a" >>
    /\ ret[W].calls[2].serverName = << "b" >>

(* Mutant: on an error of the walk the calls parsed so far are returned     *)
(* with it.                                                                 *)
DirReturns_KeepsParsed(p, calls, e) ==
    IF op[p] = "ParseDirectory"
    THEN /\ pc' = [pc EXCEPT ![p] = "done"]
         /\ ret' = [ret EXCEPT ![p] = [calls |-> loc[p].allCalls, err |-> e]]
         /\ loc' = loc
    ELSE /\ pc' = [pc EXCEPT ![p] = "gs_filter"]
         /\ loc' = [loc EXCEPT ![p].dirRet = [calls |-> loc[p].allCalls, err |-> e]]
         /\ ret' = ret

(* ParseDirectory returns, to GetStats when GetStats called it.             *)
DirReturns(p, calls, e) ==
    IF op[p] = "ParseDirectory"
    THEN /\ pc' = [pc EXCEPT ![p] = "done"]
         /\ ret' = [ret EXCEPT ![p] = [calls |-> calls, err |-> e]]
         /\ loc' = loc
    ELSE /\ pc' = [pc EXCEPT ![p] = "gs_filter"]
         /\ loc' = [loc EXCEPT ![p].dirRet = [calls |-> calls, err |-> e]]
         /\ ret' = ret

(* ParseDirectory(dirPath) is called on its own.                            *)
CallParseDirectory(p) ==
    /\ pc[p] = "idle"
    /\ op[p] = "ParseDirectory"
    /\ pc' = [pc EXCEPT ![p] = "pd_walk"]
    /\ loc' = [loc EXCEPT ![p].at = 1, ![p].allCalls = <<>>]
    /\ UNCHANGED << files, now, op, args, ret, hist, observed >>

(* filepath.Walk calls the callback on the next entry, or has no entry      *)
(* left.  The callback returns the error it is handed, which ends the walk; *)
(* passes over a directory, a name without ".jsonl" and a file of size 0;   *)
(* calls ParseFile on any other file.                                       *)
PdWalk(p) ==
    /\ pc[p] = "pd_walk"
    /\ LET i == loc[p].at IN
       \/ /\ i > Len(files)
          /\ DirReturns(p, loc[p].allCalls, "")
          /\ UNCHANGED hist
       \/ /\ i <= Len(files)
          /\ files[i].walkErr
          /\ DirReturns(p, <<>>, "failed to walk directory")
          /\ UNCHANGED hist
       \/ /\ i <= Len(files)
          /\ ~files[i].walkErr
          /\ \/ files[i].kind = "dir"
             \/ ~files[i].jsonl
             \/ files[i].lines = <<>>
          /\ loc' = [loc EXCEPT ![p].at = i + 1]
          /\ UNCHANGED << pc, ret, hist >>
       \/ /\ i <= Len(files)
          /\ ~files[i].walkErr
          /\ files[i].kind = "file"
          /\ files[i].jsonl
          /\ files[i].lines # <<>>
          /\ pc' = [pc EXCEPT ![p] = "pf_open"]
          /\ hist' = [hist EXCEPT ![p].opened = @ \cup {i}]
          /\ UNCHANGED << loc, ret >>
    /\ UNCHANGED << files, now, op, args, observed >>

(* Mutant: the callback hands ParseFile's error on to the walk.             *)
WalkFnReturn_Propagates(fileErr) == fileErr

(* What the callback returns to filepath.Walk after ParseFile: nil, after   *)
(* an error as after a success.                                             *)
WalkFnReturn(fileErr) == ""

(* The callback after ParseFile: a warning on os.Stderr for an error, the   *)
(* calls appended otherwise; the walk goes on.                              *)
PdAfter(p) ==
    /\ pc[p] = "pd_after"
    /\ LET r == loc[p].fileRet IN
       /\ hist' = [hist EXCEPT ![p].warnings = IF r.err # "" THEN @ + 1 ELSE @]
       /\ IF WalkFnReturn(r.err) # ""
          THEN DirReturns(p, <<>>, "failed to walk directory")
          ELSE /\ pc' = [pc EXCEPT ![p] = "pd_walk"]
               /\ loc' = [loc EXCEPT ![p].at = @ + 1,
                                     ![p].allCalls = IF r.err # "" THEN @ ELSE @ \o r.calls]
               /\ ret' = ret
    /\ UNCHANGED << files, now, op, args, observed >>

(* The most entries under a root.                                           *)
MaxFiles == 3

(* The entries under a root: a subdirectory; a directory that cannot be     *)
(* read; a transcript with one call; one with a line that is no JSON text   *)
(* before its call; one with a line too long for the scanner after its      *)
(* first call; one that cannot be opened; one of size 0; a file of another  *)
(* extension that holds a call.                                             *)
DirEntries ==
    { Dir(FALSE), Dir(TRUE),
      File(TRUE, TRUE, << CallLine("mcp__a__t", "2025-04-09T00:00:00Z") >>),
      File(TRUE, TRUE, << Invalid, CallLine("mcp__b__u__v", "2025-03-11T00:00:00Z") >>),
      File(TRUE, TRUE, << CallLine("mcp__a__t", "2025-01-10T00:00:00Z"), TooLong,
                          CallLine("mcp__b__u__v", "2025-04-03T00:00:00.000Z") >>),
      File(TRUE, FALSE, << CallLine("mcp__a__t", "2025-04-09T00:00:00Z") >>),
      File(TRUE, TRUE, <<>>),
      File(FALSE, TRUE, << CallLine("mcp__a__t", "2025-04-09T00:00:00Z") >>) }

(* What the walk finds: a root that does not exist, or a root with up to    *)
(* MaxFiles entries under it.                                               *)
DirTrees ==
    { << Dir(TRUE) >> } \cup { << Dir(FALSE) >> \o q : q \in SeqsUpTo(DirEntries, MaxFiles) }

InitParseDirectory == InitParser("ParseDirectory", DirTrees, {<<>>})

NextParseDirectory ==
    \/ CallParseDirectory("p1")
    \/ PdWalk("p1")
    \/ PfOpen("p1")
    \/ PfScan("p1")
    \/ PdAfter("p1")

ParseDirectorySpec == InitParseDirectory /\ [][NextParseDirectory]_vars

(* The entries ParseFile is to be called on: files named *.jsonl that are   *)
(* not empty.                                                               *)
Transcripts ==
    { i \in 1..Len(files) : files[i].kind = "file" /\ files[i].jsonl /\ files[i].lines # <<>> }

(* The calls of the transcripts from entry i on that ParseFile returned no  *)
(* error for, in the order of the walk.                                     *)
RECURSIVE CallsOfTree(_)
CallsOfTree(i) ==
    IF i > Len(files) THEN <<>>
    ELSE (IF i \in Transcripts /\ i \notin hist[W].failed
          THEN CallsOfLines(files[i].lines)
          ELSE <<>>)
         \o CallsOfTree(i + 1)

(* C16: ParseDirectory fails exactly when the walk itself fails on some     *)
(* entry; otherwise, whatever ParseFile returned for any file, it returns   *)
(* no error, has called ParseFile on every non-empty .jsonl file under the  *)
(* root, and returns the calls of every one of those files for which        *)
(* ParseFile returned no error; each failed file has left one warning.      *)
C16_WalkSurvivesFileFailures ==
    (op[W] = "ParseDirectory" /\ Done) =>
        LET broken == \E i \in 1..Len(files) : files[i].walkErr IN
        /\ ret[W].err # "" <=> broken
        /\ ~broken =>
              /\ hist[W].opened = Transcripts
              /\ ret[W].calls = CallsOfTree(1)
              /\ hist[W].failed \subseteq Transcripts
              /\ hist[W].warnings = Cardinality(hist[W].failed)
              /\ \A i \in Transcripts : ReadableToEnd(i) => i \notin hist[W].failed

(* C16 witness: the first transcript under the root could not be opened, a  *)
(* later one was parsed and its call returned, with no error.               *)
C16_Witness ==
    /\ op[W] = "ParseDirectory"
    /\ Done
    /\ ret[W].err = ""
    /\ Len(files) = 4
    /\ ~files[2].readable
    /\ hist[W].failed = {2}
    /\ hist[W].opened = {2, 4}
    /\ Len(ret[W].calls) = 1
    /\ ret[W].calls[1].serverName = << "b" >>

(***************************************************************************)
(* The aggregator: AggregateStats, FilterByPeriod, GetStats, and IsUnused  *)
(* of types.ServerStats.  In its specifications now is the clock in days,  *)
(* counted as the timestamps are.                                          *)
(***************************************************************************)

(* t.After(u).                                                              *)
After(t, u) == t > u

(* The loop body of AggregateStats: statsMap after one more call.           *)
AddCall(statsMap, call) ==
    LET old == IF call.serverName \in DOMAIN statsMap
               THEN statsMap[call.serverName]
               ELSE [name |-> call.serverName, calls |-> 0, lastUsed |-> ZeroTime,
                     tools |-> <<>>]
        count == IF call.toolName \in DOMAIN old.tools THEN old.tools[call.toolName] ELSE 0
        new == [name |-> old.name,
                calls |-> old.calls + 1,
                lastUsed |-> IF After(call.timestamp, old.lastUsed)
                             THEN call.timestamp ELSE old.lastUsed,
                tools |-> [t \in (DOMAIN old.tools) \cup {call.toolName} |->
                              IF t = call.toolName THEN count + 1 ELSE old.tools[t]]]
    IN  [n \in (DOMAIN statsMap) \cup {call.serverName} |->
            IF n = call.serverName THEN new ELSE statsMap[n]]

(* statsMap after the loop over calls.                                      *)
StatsMapOf(calls) ==
    LET RECURSIVE Fold(_, _)
        Fold(i, acc) == IF i > Len(calls) THEN acc ELSE Fold(i + 1, AddCall(acc, calls[i]))
    IN  Fold(1, <<>>)

(* Mutant: the last call of a server gives its lastUsed.                    *)
AggregateStats_LastSeen(calls, order) ==
    [i \in 1..Len(order) |->
        [StatsMapOf(calls)[order[i]] EXCEPT
            !.lastUsed = calls[CHOOSE k \in 1..Len(calls) :
                                  /\ calls[k].serverName = order[i]
                                  /\ \A j \in (k + 1)..Len(calls) :
                                        calls[j].serverName # order[i]].timestamp]]

(* AggregateStats(calls): the records of statsMap, in the order in which    *)
(* the range over the map yields them.                                      *)
AggregateStats(calls, order) == [i \in 1..Len(order) |-> StatsMapOf(calls)[order[i]]]

(* Period.Duration(), in days; PeriodOther is a Period outside the four     *)
(* constants.                                                               *)
Duration(period) ==
    CASE period = "Period7Days" -> 7
      [] period = "Period30Days" -> 30
      [] period = "Period90Days" -> 90
      [] period = "PeriodAll" -> 0
      [] OTHER -> 30

Periods == {"Period7Days", "Period30Days", "Period90Days", "PeriodAll", "PeriodOther"}

(* Mutant: a call at the cutoff itself is kept.                             *)
FilterByPeriod_Inclusive(calls, period, clock) ==
    IF period = "PeriodAll" THEN calls
    ELSE SelectSeq(calls, LAMBDA call : call.timestamp >= clock - Duration(period))

(* FilterByPeriod(calls, period), with clock what time.Now() returns.       *)
FilterByPeriod(calls, period, clock) ==
    IF period = "PeriodAll" THEN calls
    ELSE SelectSeq(calls, LAMBDA call : After(call.timestamp, clock - Duration(period)))

(* Mutant: the comparison is not strict.                                    *)
IsUnused_AtLeast(s, period, clock) ==
    IF s.lastUsed = ZeroTime THEN TRUE ELSE clock - s.lastUsed >= period

(* ServerStats.IsUnused(period), with clock what time.Since reads.          *)
IsUnused(s, period, clock) ==
    IF s.lastUsed = ZeroTime THEN TRUE ELSE clock - s.lastUsed > period

(* Mutant: every call is aggregated, then the records used before the       *)
(* cutoff are dropped.                                                      *)
FilterThenAggregate_FilterLast(calls, period, clock, order) ==
    LET all == AggregateStats(calls, order)
    IN  IF period = "PeriodAll" THEN all
        ELSE SelectSeq(all, LAMBDA s : After(s.lastUsed, clock - Duration(period)))

(* The tail of GetStats: FilterByPeriod, then AggregateStats; order is the  *)
(* order in which a range over a map yields the server names.               *)
FilterThenAggregate(calls, period, clock, order) ==
    LET filtered == FilterByPeriod(calls, period, clock)
    IN  AggregateStats(filtered, SelectSeq(order, LAMBDA n : n \in DOMAIN StatsMapOf(filtered)))

(* The day the commands run on (2025-04-10), and the day before.            *)
Today == 100

Clocks == {Today - 1, Today}

(* The longest sequence of calls handed to the aggregator.                  *)
MaxCalls == 3

ServerNames == { << "a" >>, << "b" >> }

(* Calls for AggregateStats: two servers, two tools, unset and three real   *)
(* timestamps.                                                              *)
AggregateCalls ==
    { ToolCall(s, t, ts) :
        s \in ServerNames, t \in { << "t" >>, << "u" >> }, ts \in {ZeroTime, 70, 93, 99} }

(* Calls for FilterByPeriod: timestamps unset, at and next to each cutoff,  *)
(* on the day itself and after it.                                          *)
FilterCalls ==
    { ToolCall(s, << "t" >>, ts) :
        s \in ServerNames, ts \in {ZeroTime, 10, 11, 70, 71, 93, 94, Today + 1} }

(* The frame of a call of the aggregator.                                   *)
InitStats(call, inputs, clocks) ==
    /\ files = << >>
    /\ now \in clocks
    /\ pc = [p \in Procs |-> "idle"]
    /\ op = [p \in Procs |-> call]
    /\ args \in [Procs -> inputs]
    /\ loc = [p \in Procs |-> ParserLocals]
    /\ ret = [p \in Procs |-> NoCalls]
    /\ hist = [p \in Procs |-> ParserHist]
    /\ observed = NotRead

InitAggregate == InitStats("AggregateStats", SeqsUpTo(AggregateCalls, MaxCalls), {Today})

(* AggregateStats returns, the records in some order of the map's keys.     *)
AggregateStep(p) ==
    /\ pc[p] = "idle"
    /\ op[p] = "AggregateStats"
    /\ \E order \in Perms(DOMAIN StatsMapOf(args[p])) :
          ret' = [ret EXCEPT ![p] = [stats |-> AggregateStats(args[p], order), err |-> ""]]
    /\ pc' = [pc EXCEPT ![p] = "done"]
    /\ UNCHANGED << files, now, op, args, loc, hist, observed >>

NextAggregate == AggregateStep("p1")

AggregateSpec == InitAggregate /\ [][NextAggregate]_vars

InitFilter ==
    InitStats("FilterByPeriod",
              [calls : SeqsUpTo(FilterCalls, MaxCalls), period : Periods], Clocks)

(* FilterByPeriod returns; the cutoff it computed is noted.                 *)
FilterStep(p) ==
    /\ pc[p] = "idle"
    /\ op[p] = "FilterByPeriod"
    /\ ret' = [ret EXCEPT ![p] =
                  [calls |-> FilterByPeriod(args[p].calls, args[p].period, now), err |-> ""]]
    /\ hist' = [hist EXCEPT ![p].cutoff = now - Duration(args[p].period)]
    /\ pc' = [pc EXCEPT ![p] = "done"]
    /\ UNCHANGED << files, now, op, args, loc, observed >>

NextFilter == FilterStep("p1")

FilterSpec == InitFilter /\ [][NextFilter]_vars

(* ServerStats records and durations for IsUnused: never used, used at and  *)
(* next to 7, 30 and 90 days before Today, on the day, the day after.       *)
UnusedInputs ==
    [stats : { [name |-> << "a" >>, calls |-> 1, lastUsed |-> ts, tools |-> <<>>] :
                 ts \in {ZeroTime} \cup { Today - d + k : d \in {0, 7, 30, 90}, k \in {-1, 0, 1} } },
     period : {0, 1, 7, 30, 90}]

InitUnused == InitStats("IsUnused", UnusedInputs, Clocks)

(* IsUnused returns.                                                        *)
UnusedStep(p) ==
    /\ pc[p] = "idle"
    /\ op[p] = "IsUnused"
    /\ ret' = [ret EXCEPT ![p] =
                  [unused |-> IsUnused(args[p].stats, args[p].period, now), err |-> ""]]
    /\ pc' = [pc EXCEPT ![p] = "done"]
    /\ UNCHANGED << files, now, op, args, loc, hist, observed >>

NextUnused == UnusedStep("p1")

UnusedSpec == InitUnused /\ [][NextUnused]_vars

(* GetStats(transcriptPath, period) is called.                              *)
CallGetStats(p) ==
    /\ pc[p] = "idle"
    /\ op[p] = "GetStats"
    /\ pc' = [pc EXCEPT ![p] = "pd_walk"]
    /\ loc' = [loc EXCEPT ![p].at = 1, ![p].allCalls = <<>>]
    /\ UNCHANGED << files, now, op, args, ret, hist, observed >>

(* After ParseDirectory: its error is returned, or its calls are filtered   *)
(* by the clock of this moment and aggregated.                              *)
GsFilterAggregate(p) ==
    /\ pc[p] = "gs_filter"
    /\ IF loc[p].dirRet.err # ""
       THEN /\ ret' = [ret EXCEPT ![p] = [stats |-> <<>>, err |-> loc[p].dirRet.err]]
            /\ UNCHANGED hist
       ELSE /\ \E order \in Perms(DOMAIN StatsMapOf(loc[p].dirRet.calls)) :
                  ret' = [ret EXCEPT ![p] =
                             [stats |-> FilterThenAggregate(loc[p].dirRet.calls, args[p],
                                                            now, order),
                              err |-> ""]]
            /\ hist' = [hist EXCEPT ![p].cutoff = now - Duration(args[p])]
    /\ pc' = [pc EXCEPT ![p] = "done"]
    /\ UNCHANGED << files, now, op, args, loc, observed >>

(* The clock moves on by a day, here up to Today.                           *)
NextDay ==
    /\ now < Today
    /\ now' = now + 1
    /\ UNCHANGED << files, pc, op, args, loc, ret, hist, observed >>

(* The entries under the root GetStats is called on: transcripts with calls *)
(* of 2025-04-09, of 2025-03-11 after a line that is no JSON text, of       *)
(* 2025-01-10 and 2025-04-03; a transcript that cannot be opened; a         *)
(* directory that cannot be read.                                           *)
StatsEntries ==
    { File(TRUE, TRUE, << CallLine("mcp__a__t", "2025-04-09T00:00:00Z") >>),
      File(TRUE, TRUE, << Invalid, CallLine("mcp__b__u__v", "2025-03-11T00:00:00Z") >>),
      File(TRUE, TRUE, << CallLine("mcp__a__t", "2025-01-10T00:00:00Z"),
                          CallLine("mcp__b__u__v", "2025-04-03T00:00:00.000Z") >>),
      File(TRUE, FALSE, << CallLine("mcp__a__t", "2025-04-09T00:00:00Z") >>),
      Dir(TRUE) }

StatsTrees == { << Dir(FALSE) >> \o q : q \in SeqsUpTo(StatsEntries, MaxFiles) }

InitGetStats ==
    /\ files \in StatsTrees
    /\ now \in Clocks
    /\ pc = [p \in Procs |-> "idle"]
    /\ op = [p \in Procs |-> "GetStats"]
    /\ args \in [Procs -> Periods]
    /\ loc = [p \in Procs |-> ParserLocals]
    /\ ret = [p \in Procs |-> NoCalls]
    /\ hist = [p \in Procs |-> ParserHist]
    /\ observed = NotRead

NextGetStats ==
    \/ CallGetStats("p1")
    \/ PdWalk("p1")
    \/ PfOpen("p1")
    \/ PfScan("p1")
    \/ PdAfter("p1")
    \/ GsFilterAggregate("p1")
    \/ NextDay

GetStatsSpec == InitGetStats /\ [][NextGetStats]_vars

(* The sum of the values of a map of counts.                                *)
RECURSIVE SumOf(_)
SumOf(f) ==
    IF DOMAIN f = {} THEN 0
    ELSE LET k == CHOOSE x \in DOMAIN f : TRUE
         IN  f[k] + SumOf([x \in (DOMAIN f) \ {k} |-> f[x]])

Largest(S) == CHOOSE x \in S : \A y \in S : y <= x

(* C17: AggregateStats returns one record for each server name among the    *)
(* calls; a record's calls is the number of calls of its name and the sum   *)
(* of its per-tool counts, each of which is the number of calls of that     *)
(* tool; its lastUsed is the largest timestamp of those calls that is not   *)
(* unset, unset if there is none; and the records are the same for every    *)
(* reordering of the calls.                                                 *)
C17_OneRecordPerServer ==
    (op[W] = "AggregateStats" /\ Done) =>
        LET calls == args[W]
            stats == ret[W].stats
            names == {calls[k].serverName : k \in 1..Len(calls)}
        IN  /\ Len(stats) = Cardinality(names)
            /\ {stats[i].name : i \in 1..Len(stats)} = names
            /\ \A i \in 1..Len(stats) :
                  LET mine == {k \in 1..Len(calls) : calls[k].serverName = stats[i].name}
                      real == {calls[k].timestamp : k \in mine} \ {ZeroTime}
                  IN  /\ stats[i].calls = Cardinality(mine)
                      /\ stats[i].calls = SumOf(stats[i].tools)
                      /\ DOMAIN stats[i].tools = {calls[k].toolName : k \in mine}
                      /\ \A t \in DOMAIN stats[i].tools :
                            stats[i].tools[t]
                              = Cardinality({k \in mine : calls[k].toolName = t})
                      /\ stats[i].lastUsed = IF real = {} THEN ZeroTime ELSE Largest(real)
            /\ \A q \in Perms(1..Len(calls)) :
                  \A order \in Perms(names) :
                      Elems(AggregateStats([k \in 1..Len(calls) |-> calls[q[k]]], order))
                        = Elems(stats)

(* C17 witness: three calls of one server, the latest of them first, one    *)
(* with an unset timestamp.                                                 *)
C17_Witness ==
    /\ op[W] = "AggregateStats"
    /\ Done
    /\ Len(args[W]) = 3
    /\ args[W][1].timestamp = 99
    /\ args[W][2].timestamp = ZeroTime
    /\ args[W][3].timestamp = 70
    /\ Len(ret[W].stats) = 1
    /\ ret[W].stats[1].calls = 3
    /\ ret[W].stats[1].lastUsed = 99
    /\ Cardinality(DOMAIN ret[W].stats[1].tools) = 2

(* C18: FilterByPeriod with the all-time period returns its input, calls    *)
(* with an unset timestamp included; with any other period it returns, in   *)
(* the order of the input, exactly the calls whose timestamp is set and     *)
(* strictly after the clock minus the period's duration.                    *)
C18_FilterKeepsWindow ==
    (op[W] = "FilterByPeriod" /\ Done) =>
        IF args[W].period = "PeriodAll"
        THEN ret[W].calls = args[W].calls
        ELSE /\ hist[W].cutoff = now - Duration(args[W].period)
             /\ ret[W].calls
                  = SelectSeq(args[W].calls,
                              LAMBDA call : /\ call.timestamp # ZeroTime
                                            /\ call.timestamp > hist[W].cutoff)
             /\ \A i \in 1..Len(ret[W].calls) : ret[W].calls[i].timestamp # ZeroTime

(* C18 witness: under the 7-day period on day Today, of a call at the       *)
(* cutoff, an unset one and one a day after the cutoff only the last stays. *)
C18_Witness ==
    /\ op[W] = "FilterByPeriod"
    /\ Done
    /\ now = Today
    /\ args[W].period = "Period7Days"
    /\ Len(args[W].calls) = 3
    /\ args[W].calls[1].timestamp = Today - 7
    /\ args[W].calls[2].timestamp = ZeroTime
    /\ args[W].calls[3].timestamp = Today - 6
    /\ ret[W].calls = << args[W].calls[3] >>

(* C19: GetStats with a period other than all-time returns a record only    *)
(* for a server that has a call strictly after the cutoff; the record's     *)
(* calls counts those calls only, its lastUsed is set and strictly after    *)
(* the cutoff, and IsUnused with the period's duration, at the instant the  *)
(* cutoff was taken, is false for it; a server all of whose calls are at or *)
(* before the cutoff has no record.                                         *)
C19_StatsOnlyInsideWindow ==
    (op[W] = "GetStats" /\ Done /\ ret[W].err = "" /\ args[W] # "PeriodAll") =>
        LET all == loc[W].dirRet.calls
            cutoff == hist[W].cutoff
            InWindow(n) == {k \in 1..Len(all) :
                              all[k].serverName = n /\ all[k].timestamp > cutoff}
            stats == ret[W].stats
        IN  /\ \A i \in 1..Len(stats) :
                  /\ stats[i].calls >= 1
                  /\ stats[i].calls = Cardinality(InWindow(stats[i].name))
                  /\ stats[i].lastUsed # ZeroTime
                  /\ stats[i].lastUsed > cutoff
                  /\ stats[i].lastUsed
                        = Largest({all[k].timestamp : k \in InWindow(stats[i].name)})
                  /\ ~IsUnused(stats[i], Duration(args[W]), cutoff + Duration(args[W]))
            /\ {stats[i].name : i \in 1..Len(stats)}
                  = {all[k].serverName : k \in {j \in 1..Len(all) : all[j].timestamp > cutoff}}
            /\ Len(stats) = Cardinality({stats[i].name : i \in 1..Len(stats)})

(* C19 witness: under the 7-day period server a, called on 2025-01-10 and   *)
(* on 2025-04-09, has a record of one call; server b, last called at the    *)
(* cutoff, has none.                                                        *)
C19_Witness ==
    /\ op[W] = "GetStats"
    /\ Done
    /\ ret[W].err = ""
    /\ args[W] = "Period7Days"
    /\ hist[W].cutoff = 93
    /\ Len(loc[W].dirRet.calls) = 3
    /\ \E k \in 1..3 : loc[W].dirRet.calls[k].timestamp = 10
    /\ \E k \in 1..3 : loc[W].dirRet.calls[k] = ToolCall(<< "b" >>, << "u", "_", "_", "v" >>, 93)
    /\ Len(ret[W].stats) = 1
    /\ ret[W].stats[1].name = << "a" >>
    /\ ret[W].stats[1].calls = 1
    /\ ret[W].stats[1].lastUsed = 99

(* C20: IsUnused(d) is true exactly when lastUsed is unset or the time      *)
(* since lastUsed is strictly greater than d; with lastUsed unset it is     *)
(* true for every d.                                                        *)
C20_UnusedIffUnsetOrOlder ==
    (op[W] = "IsUnused" /\ Done) =>
        /\ ret[W].unused
              <=> \/ args[W].stats.lastUsed = ZeroTime
                  \/ now - args[W].stats.lastUsed > args[W].period
        /\ args[W].stats.lastUsed = ZeroTime => ret[W].unused

(* C20 witness: last used exactly 30 days ago, asked with 30 days: used.    *)
C20_Witness ==
    /\ op[W] = "IsUnused"
    /\ Done
    /\ now = Today
    /\ args[W].stats.lastUsed = Today - 30
    /\ args[W].period = 30
    /\ ~ret[W].unused

(***************************************************************************)
(* Output of the library, the scope of descriptors, and what of a file     *)
(* enters the result of the walk.                                          *)
(***************************************************************************)

(* C24: Backup, RemoveServer and RemoveServers send nothing to os.Stdout:   *)
(* at no moment of a call has the library printed a line.                   *)
C24_LibraryPrintsNothing == \A p \in Procs : hist[p].printed = 0

(* C26: every descriptor Load returns has a non-empty projectPath when its  *)
(* scope is project and an empty one when its scope is global.              *)
C26_ProjectScopeHasPath ==
    (op[W] = "Load" /\ Done /\ ret[W].err = "") =>
        \A s \in Elems(ret[W].cfg.servers) :
            /\ s.scope = "project" => s.projectPath # ""
            /\ s.scope = "global" => s.projectPath = ""

(* The calls of the transcripts before entry n that ParseFile returned no   *)
(* error for.                                                               *)
RECURSIVE CallsBefore(_)
CallsBefore(n) ==
    IF n <= 1 THEN <<>>
    ELSE CallsBefore(n - 1)
         \o (IF (n - 1) \in Transcripts /\ (n - 1) \notin hist[W].failed
             THEN CallsOfLines(files[n - 1].lines)
             ELSE <<>>)

(* C30: throughout the walk the calls collected are all the calls of the    *)
(* files parsed without error and none of a file ParseFile failed on,       *)
(* whatever calls came with the error; and when the walk fails the result   *)
(* is an error with no call, whatever had been collected.                   *)
C30_FileCallsAllOrNone ==
    op[W] = "ParseDirectory" =>
        /\ pc[W] \in {"pd_walk", "pf_open", "pf_scan", "pd_after"} =>
              loc[W].allCalls = CallsBefore(loc[W].at)
        /\ Done =>
              IF \E i \in 1..Len(files) : files[i].walkErr
              THEN ret[W].err # "" /\ ret[W].calls = <<>>
              ELSE ret[W].err = "" /\ ret[W].calls = CallsBefore(Len(files) + 1)

(* C30 witness: the walk failed at the last entry after one file was parsed *)
(* and another had failed at a line too long with a call already read.      *)
C30_Witness ==
    /\ op[W] = "ParseDirectory"
    /\ Done
    /\ ret[W].err # ""
    /\ ret[W].calls = <<>>
    /\ Len(loc[W].allCalls) = 1
    /\ loc[W].allCalls[1].serverName = << "b" >>
    /\ loc[W].fileRet.err # ""
    /\ Len(loc[W].fileRet.calls) = 1
    /\ hist[W].failed = {3}
    /\ hist[W].faulted = {}

(***************************************************************************)
(* A caller that takes one backup after another of a config file that it   *)
(* (or the assistant) rewrites in between, as TestBackup_NoOverwrite does. *)
(* Here observed is the caller's notebook: calls, one record for each      *)
(* Backup that has returned (its error, its path, the bytes it read, the   *)
(* ticks at which it was called and at which its result was noted), and    *)
(* start, the tick at which the call under way was made.                   *)
(***************************************************************************)

(* The most calls of Backup in a row.                                       *)
MaxBackups == 3

(* What the config file holds at one time or another.                       *)
BackupSources ==
    { Absent,
      Full(Obj(<< KV("mcpServers", Mapping(<< "a" >>, "g")) >>)),
      Full(Obj(<< KV("mcpServers", Mapping(<< "b", "a" >>, "g")) >>)) }

InitBackups ==
    /\ files \in {InitFiles(c) : c \in BackupSources \ {Absent}}
    /\ now = 0
    /\ pc = [p \in Procs |-> "idle"]
    /\ op = [p \in Procs |-> "none"]
    /\ args = [p \in Procs |-> <<>>]
    /\ loc = [p \in Procs |-> NoLocals]
    /\ ret = [p \in Procs |-> NoReturn]
    /\ hist = [p \in Procs |-> NewHist(files)]
    /\ observed = [calls |-> <<>>, start |-> 0]

(* Backup has returned to the caller, which notes the result.               *)
BackupReturned(p) ==
    /\ pc[p] = "done"
    /\ pc' = [pc EXCEPT ![p] = "between"]
    /\ observed' = [observed EXCEPT
                       !.calls = Append(@, [err |-> ret[p].err,
                                            backupPath |-> ret[p].backupPath,
                                            content |-> loc[p].content,
                                            from |-> observed.start,
                                            to |-> now])]
    /\ loc' = [loc EXCEPT ![p] = NoLocals]
    /\ UNCHANGED << files, now, op, args, ret, hist >>

(* Between two calls the config file is rewritten, or removed.              *)
RewriteSource(p) ==
    /\ pc[p] = "between"
    /\ \E c \in BackupSources \ {files.cfg} : files' = [files EXCEPT !.cfg = c]
    /\ UNCHANGED << now, pc, op, args, loc, ret, hist, observed >>

(* The caller is about to call Backup again.                                *)
NextBackup(p) ==
    /\ pc[p] = "between"
    /\ Len(observed.calls) < MaxBackups
    /\ pc' = [pc EXCEPT ![p] = "idle"]
    /\ observed' = [observed EXCEPT !.start = now]
    /\ UNCHANGED << files, now, op, args, loc, ret, hist >>

(* The clock ticks while a call runs and between calls.                     *)
BackupsTick == pc["p1"] # "idle" /\ Tick

NextBackups ==
    \/ CallBackup("p1")
    \/ BkRead("p1")
    \/ BkWrite("p1")
    \/ BackupReturned("p1")
    \/ RewriteSource("p1")
    \/ NextBackup("p1")
    \/ BackupsTick

BackupsSpec == InitBackups /\ [][NextBackups]_vars

(* The call before the one that has just returned.                          *)
Earlier == observed.calls[Len(observed.calls)]

(* The backup files there are, by their second.                             *)
BackupFiles == {sec \in Seconds : Exists(files.bak[sec])}

(* The calls that have returned: those noted and the one just back.         *)
Returned ==
    observed.calls
      \o (IF Done THEN << [err |-> ret[W].err, backupPath |-> ret[W].backupPath,
                           content |-> loc[W].content, from |-> observed.start,
                           to |-> now] >>
          ELSE <<>>)

TwoInARow == Done /\ Succeeded /\ observed.calls # <<>> /\ Earlier.err = ""

(* Two successful calls in a row within one second: one path, and the file  *)
(* holds the source as of the second call.                                  *)
SameSecondOverwrites ==
    (TwoInARow /\ FormatTimestamp(Earlier.from) = FormatTimestamp(now)) =>
        /\ ret[W].backupPath = Earlier.backupPath
        /\ files.bak[ret[W].backupPath] = files.cfg

(* Two successful calls in a row in different seconds: two files, each with *)
(* the bytes its call read.                                                 *)
OtherSecondOtherFile ==
    (TwoInARow /\ FormatTimestamp(Earlier.to) < FormatTimestamp(observed.start)) =>
        /\ ret[W].backupPath # Earlier.backupPath
        /\ files.bak[Earlier.backupPath] = Earlier.content
        /\ files.bak[ret[W].backupPath] = files.cfg

SucceededIn == {Returned[i].backupPath : i \in {j \in 1..Len(Returned) : Returned[j].err = ""}}

WriteFailedIn ==
    UNION { FormatTimestamp(Returned[i].from)..FormatTimestamp(Returned[i].to) :
              i \in {j \in 1..Len(Returned) : Returned[j].err = "failed to write backup"} }

Writers == {"p1", "p2"}

(* What each invocation is to remove.                                       *)
RaceServers ==
    [p \in Writers |->
        << [name |-> IF p = "p1" THEN "a" ELSE "b", scope |-> "global", projectPath |-> ""] >>]

(* The documents that hold both servers.                                    *)
RaceDocuments ==
    { d \in Documents :
        \A p \in Writers : MatchedBy(RaceServers[p], d) # {} }

InitRace ==
    /\ files \in { [cfg |-> Full(d), bak |-> [sec \in Seconds |-> Absent],
                    tmp |-> [p \in Writers |-> Absent]] : d \in RaceDocuments }
    /\ now = 0
    /\ pc = [p \in Writers |-> "idle"]
    /\ op = [p \in Writers |-> "none"]
    /\ args = [p \in Writers |-> <<>>]
    /\ loc = [p \in Writers |-> NoLocals]
    /\ ret = [p \in Writers |-> NoReturn]
    /\ hist = [p \in Writers |-> NewHist(files)]
    /\ observed = files.cfg

(* RemoveServers(configPath, servers) in process p, with its own server.    *)
RaceCall(p) ==
    /\ Begin(p, "RemoveServers", RaceServers[p])
    /\ Goto(p, FirstStep(RaceServers[p]))

RaceStep(p) ==
    \/ RaceCall(p)
    \/ BkRead(p)
    \/ BkWrite(p)
    \/ RmRead(p)
    \/ AwCreate(p)
    \/ AwWriteChunk(p)
    \/ AwWrite(p)
    \/ AwClose(p)
    \/ AwRename(p)
    \/ AwCleanup(p)

NextRace == RaceStep("p1") \/ RaceStep("p2") \/ Tick

RaceSpec == InitRace /\ [][NextRace]_vars

(* Both invocations have returned without error.                            *)
BothSucceeded == \A p \in Writers : pc[p] = "done" /\ ret[p].err = ""

(* The entries of the final document that some invocation was to remove.    *)
Survivors == UNION { MatchedBy(RaceServers[p], files.cfg.doc) : p \in Writers }

(* Each invocation read the config file before the other had replaced it.   *)
BothReadFirst == \A p \in Writers : loc[p].content = observed

(* C28: the config path always holds a whole document, the one found or one *)
(* a process has written; once both invocations have succeeded it is the    *)
(* document one of them wrote; when both had read before either renamed,    *)
(* that document still holds the server the other removed; when one read    *)
(* after the other's rename, it holds neither.                              *)
C28_LostUpdate ==
    /\ files.cfg.st = "full"
    /\ files.cfg \in {observed} \cup {loc[p].newContent : p \in Writers}
    /\ BothSucceeded =>
          /\ files.cfg \in {loc[p].newContent : p \in Writers}
          /\ BothReadFirst => Cardinality(Survivors) = 1
          /\ ~BothReadFirst => Survivors = {}

(* C28 witness: both invocations have succeeded and the final document      *)
(* still holds server a, which p1 removed.                                  *)
C28_Witness ==
    /\ BothSucceeded
    /\ BothReadFirst
    /\ files.cfg = loc["p2"].newContent
    /\ Survivors = MatchedBy(RaceServers["p1"], observed.doc)
    /\ Survivors # {}
    /\ \A p \in Writers : hist[p].replaced = 1

(***************************************************************************)
(* The prompts of package ui: SelectServersPromptWithReader and            *)
(* ConfirmPromptWithReader.  What the reader holds is a text without a     *)
(* line feed, as a sequence of characters, followed by a line feed or by   *)
(* the end of the input.                                                   *)
(***************************************************************************)

Input(text, newline) == [text |-> text, newline |-> newline]

(* strings.ToLower, on the letters of the inputs.                           *)
ToLower(s) ==
    [i \in 1..Len(s) |-> CASE s[i] = "A" -> "a" [] s[i] = "L" -> "l" [] s[i] = "Y" -> "y"
                           [] s[i] = "E" -> "e" [] s[i] = "S" -> "s" [] OTHER -> s[i]]

IsSpace(c) == c = " "

(* strings.TrimSpace(s).                                                    *)
TrimSpace(s) ==
    LET inked == {i \in 1..Len(s) : ~IsSpace(s[i])}
    IN  IF inked = {} THEN <<>>
        ELSE SubSeq(s, CHOOSE i \in inked : \A j \in inked : i <= j,
                       CHOOSE i \in inked : \A j \in inked : j <= i)

(* strings.Fields(s): the maximal runs of characters that are not spaces.   *)
RECURSIVE Fields(_)
Fields(s) ==
    IF s = <<>> THEN <<>>
    ELSE IF IsSpace(s[1]) THEN Fields(Tail(s))
    ELSE LET spaces == {i \in 1..Len(s) : IsSpace(s[i])}
             end == IF spaces = {} THEN Len(s) + 1
                    ELSE CHOOSE i \in spaces : \A j \in spaces : i <= j
         IN  << SubSeq(s, 1, end - 1) >> \o Fields(SubSeq(s, end, Len(s)))

DecimalDigits == << "0", "1", "2", "3", "4", "5", "6", "7", "8", "9" >>

IsDigit(c) == \E d \in 1..Len(DecimalDigits) : DecimalDigits[d] = c

DigitValue(c) == (CHOOSE d \in 1..Len(DecimalDigits) : DecimalDigits[d] = c) - 1

RECURSIVE ParseDigits(_, _)
ParseDigits(s, acc) ==
    IF s = <<>> THEN acc ELSE ParseDigits(Tail(s), 10 * acc + DigitValue(s[1]))

(* fmt.Sscanf(part, "%d", &idx): an optional sign, then the digits up to    *)
(* the first character that is none; what follows is left unread.  An       *)
(* error when there is no digit.                                            *)
Sscanf(part) ==
    LET signed == part # <<>> /\ part[1] \in {"+", "-"}
        body == IF signed THEN Tail(part) ELSE part
        others == {i \in 1..Len(body) : ~IsDigit(body[i])}
        n == IF others = {} THEN Len(body)
             ELSE (CHOOSE i \in others : \A j \in others : i <= j) - 1
        value == ParseDigits(SubSeq(body, 1, n), 0)
    IN  IF n = 0 THEN [err |-> "expected integer", idx |-> 0]
        ELSE [err |-> "", idx |-> IF signed /\ part[1] = "-" THEN 0 - value ELSE value]

(* The body of the loop over the fields: selected after one more part.      *)
AppendSelected(selected, part, n) ==
    LET r == Sscanf(part) IN
    IF r.err = "" /\ r.idx >= 1 /\ r.idx <= n THEN Append(selected, r.idx - 1) ELSE selected

(* SelectServersPromptWithReader(r, w, servers, stats), with n the number   *)
(* of servers: the indices chosen, none (nil) when there is no server, when *)
(* ReadString('\n') meets the end of the input first, or for a blank line.  *)
SelectServersPromptWithReader(in, n) ==
    LET input == TrimSpace(ToLower(in.text))
        parts == Fields(input)
        RECURSIVE Selected(_, _)
        Selected(i, acc) ==
            IF i > Len(parts) THEN acc ELSE Selected(i + 1, AppendSelected(acc, parts[i], n))
    IN  IF n = 0 THEN <<>>
        ELSE IF ~in.newline THEN <<>>
        ELSE IF input = <<>> THEN <<>>
        ELSE IF input = << "a", "l", "l" >> THEN [i \in 1..n |-> i - 1]
        ELSE Selected(1, <<>>)

(* Mutant: a blank line is taken for yes.                                   *)
ConfirmPromptWithReader_BlankIsYes(in, defaultYes) ==
    LET input == TrimSpace(ToLower(in.text))
    IN  IF ~in.newline THEN defaultYes
        ELSE IF input = <<>> THEN TRUE
        ELSE input = << "y" >> \/ input = << "y", "e", "s" >>

(* ConfirmPromptWithReader(r, w, prompt, defaultYes).                       *)
ConfirmPromptWithReader(in, defaultYes) ==
    LET input == TrimSpace(ToLower(in.text))
    IN  IF ~in.newline THEN defaultYes
        ELSE IF input = <<>> THEN defaultYes
        ELSE input = << "y" >> \/ input = << "y", "e", "s" >>

(* The longest text typed, the longest list shown.                          *)
MaxInput == 4

MaxListed == 3

SelectInputs ==
    [in : { Input(text, newline) :
              text \in SeqsUpTo({"1", "2", "4", "-", " ", "a", "l", "L"}, MaxInput),
              newline \in BOOLEAN },
     n : 0..MaxListed]

InitSelect == InitPure("SelectServersPromptWithReader", SelectInputs)

(* The prompt returns.                                                      *)
SelectStep(p) ==
    /\ pc[p] = "idle"
    /\ pc' = [pc EXCEPT ![p] = "done"]
    /\ ret' = [ret EXCEPT ![p] =
                  [err |-> "", selected |-> SelectServersPromptWithReader(args[p].in, args[p].n)]]
    /\ UNCHANGED << files, now, op, args, loc, hist, observed >>

NextSelect == SelectStep("p1")

SelectSpec == InitSelect /\ [][NextSelect]_vars

(* C25: whatever the line and the length n of the list, every index         *)
(* returned is in 0..n-1 and none is returned twice; and a line that is     *)
(* the word all, in any letter case, returns 0..n-1 in order.               *)
C25_SelectionIsASetOfIndices ==
    (op[W] = "SelectServersPromptWithReader" /\ Done) =>
        LET selected == ret[W].selected
            n == args[W].n
        IN  /\ \A k \in 1..Len(selected) : selected[k] >= 0 /\ selected[k] < n
            /\ \A j, k \in 1..Len(selected) : selected[j] = selected[k] => j = k
            /\ (args[W].in.newline /\ TrimSpace(ToLower(args[W].in.text)) = << "a", "l", "l" >>)
                  => selected = [i \in 1..n |-> i - 1]

(* What holds of the selection: every index is in range, in the order of    *)
(* the numbers typed, and all returns the whole list.                       *)
SelectionInRange ==
    (op[W] = "SelectServersPromptWithReader" /\ Done) =>
        LET selected == ret[W].selected
            n == args[W].n
        IN  /\ \A k \in 1..Len(selected) : selected[k] >= 0 /\ selected[k] < n
            /\ (args[W].in.newline /\ TrimSpace(ToLower(args[W].in.text)) = << "a", "l", "l" >>)
                  => selected = [i \in 1..n |-> i - 1]

(***************************************************************************)
(* The stats command: mergeConfiguredServers.  A configured name is a      *)
(* string of the config file, the name of a stats record the characters    *)
(* that ExtractServerName cut out of a tool name.                          *)
(***************************************************************************)

(* The characters of a configured name (one letter here), the key of statsMap. *)
NameKey(name) == << name >>

(* Mutant: a name added is not marked as present.                           *)
MergeServer_NotMarked(acc, server) ==
    IF NameKey(server.name) \in acc.statsMap THEN acc
    ELSE [stats |-> Append(acc.stats, [name |-> NameKey(server.name), calls |-> 0,
                                       lastUsed |-> ZeroTime, tools |-> <<>>]),
          statsMap |-> acc.statsMap]

(* The body of the loop over servers: stats and statsMap (the names marked  *)
(* true) after one more server.                                             *)
MergeServer(acc, server) ==
    IF NameKey(server.name) \in acc.statsMap THEN acc
    ELSE [stats |-> Append(acc.stats, [name |-> NameKey(server.name), calls |-> 0,
                                       lastUsed |-> ZeroTime, tools |-> <<>>]),
          statsMap |-> acc.statsMap \cup {NameKey(server.name)}]

(* mergeConfiguredServers(stats, servers).                                  *)
mergeConfiguredServers(stats, servers) ==
    LET RECURSIVE Loop(_, _)
        Loop(i, acc) == IF i > Len(servers) THEN acc.stats
                        ELSE Loop(i + 1, MergeServer(acc, servers[i]))
    IN  Loop(1, [stats |-> stats, statsMap |-> {stats[i].name : i \in 1..Len(stats)}])

(* The longest list of configured servers merged.                           *)
MaxMerged == 3

(* Stats records as GetStats returns them, and one of a server that is not  *)
(* configured.                                                              *)
MergeStats ==
    { [name |-> << "a" >>, calls |-> 3, lastUsed |-> 99, tools |-> [t \in {<< "t" >>} |-> 3]],
      [name |-> << "b" >>, calls |-> 1, lastUsed |-> 70, tools |-> [t \in {<< "u" >>} |-> 1]],
      [name |-> << "c" >>, calls |-> 1, lastUsed |-> 93, tools |-> [t \in {<< "t" >>} |-> 1]] }

MergeInputs ==
    [stats : {q \in SeqsUpTo(MergeStats, 2) :
                 \A i, j \in 1..Len(q) : q[i].name = q[j].name => i = j},
     servers : SeqsUpTo(Descriptors, MaxMerged)]

InitMerge == InitStats("mergeConfiguredServers", MergeInputs, {Today})

(* mergeConfiguredServers returns.                                          *)
MergeStep(p) ==
    /\ pc[p] = "idle"
    /\ op[p] = "mergeConfiguredServers"
    /\ pc' = [pc EXCEPT ![p] = "done"]
    /\ ret' = [ret EXCEPT ![p] =
                  [stats |-> mergeConfiguredServers(args[p].stats, args[p].servers),
                   err |-> ""]]
    /\ UNCHANGED << files, now, op, args, loc, hist, observed >>

NextMerge == MergeStep("p1")

MergeSpec == InitMerge /\ [][NextMerge]_vars

(* C22: the result of mergeConfiguredServers begins with the stats records  *)
(* as they were given; each record after them has no call and an unset      *)
(* lastUsed and is of a configured name without a stats record, each such   *)
(* name once, in the order in which the names first come in servers; so     *)
(* every configured name has a record.                                      *)
C22_MergeAddsMissingOnce ==
    (op[W] = "mergeConfiguredServers" /\ Done) =>
        LET stats == args[W].stats
            servers == args[W].servers
            result == ret[W].stats
            known == {stats[i].name : i \in 1..Len(stats)}
            configured == {NameKey(servers[i].name) : i \in 1..Len(servers)}
            First(n) == CHOOSE i \in 1..Len(servers) :
                           /\ NameKey(servers[i].name) = n
                           /\ \A j \in 1..(i - 1) : NameKey(servers[j].name) # n
            added == (Len(stats) + 1)..Len(result)
        IN  /\ Len(result) >= Len(stats)
            /\ SubSeq(result, 1, Len(stats)) = stats
            /\ \A k \in added :
                  /\ result[k].calls = 0
                  /\ result[k].lastUsed = ZeroTime
                  /\ result[k].name \in configured \ known
            /\ {result[k].name : k \in added} = configured \ known
            /\ \A j, k \in added :
                  /\ result[j].name = result[k].name => j = k
                  /\ j < k => First(result[j].name) < First(result[k].name)
            /\ configured \subseteq {result[k].name : k \in 1..Len(result)}

(* C22 witness: one stats record, of a; servers b (global), b (project),    *)
(* a: one record is added, for b.                                           *)
C22_Witness ==
    /\ op[W] = "mergeConfiguredServers"
    /\ Done
    /\ Len(args[W].stats) = 1
    /\ args[W].stats[1].name = << "a" >>
    /\ Len(args[W].servers) = 3
    /\ args[W].servers[1].name = "b"
    /\ args[W].servers[2].name = "b"
    /\ args[W].servers[1].scope # args[W].servers[2].scope
    /\ args[W].servers[3].name = "a"
    /\ Len(ret[W].stats) = 2
    /\ ret[W].stats[1] = args[W].stats[1]
    /\ ret[W].stats[2].name = << "b" >>
    /\ ret[W].stats[2].calls = 0

(***************************************************************************)
(* The commands: runStats and runRemove.  One process runs one command.    *)
(* Here observed is the command line and what the command has shown:       *)
(*   flags      the command and its flags: cmd, unused, dryRun, force,     *)
(*              json, period                                               *)
(*   pre        the files as the command found them                        *)
(*   statsFailed   GetStats returned an error                              *)
(*   durations  the durations IsUnused has been called with                *)
(*   answer     what ConfirmPrompt read, none before it asked              *)
(*   out        the rows of the stats output, in order                     *)
(*   msg        the last line the command printed about what it did        *)
(* and loc also holds servers, stats, statsMap, display and toRemove.      *)
(* The day of the run is Today; now is the clock of the backup path.       *)
(***************************************************************************)

(* types.ParsePeriod(s), s a sequence of characters.                        *)
ParsePeriod(s) ==
    LET l == ToLower(s) IN
    CASE l = << "7", "d" >> -> "Period7Days"
      [] l = << "3", "0", "d" >> -> "Period30Days"
      [] l = << "9", "0", "d" >> -> "Period90Days"
      [] l = << "a", "l", "l" >> -> "PeriodAll"
      [] OTHER -> "Period30Days"

(* Mutant: the remove command gives up when GetStats fails.                 *)
OnStatsError_Abort(cmd) == "abort"

(* What a command does with an error of GetStats: runStats returns it,      *)
(* loadServersWithStats sets allStats to nil and goes on.                   *)
OnStatsError(cmd) == IF cmd = "remove" THEN "continue" ELSE "abort"

(* statsMap of loadServersWithStats: the records by name.                   *)
StatsByName(allStats) ==
    [n \in {allStats[i].name : i \in 1..Len(allStats)} |->
        allStats[CHOOSE i \in 1..Len(allStats) :
                    /\ allStats[i].name = n
                    /\ \A j \in (i + 1)..Len(allStats) : allStats[j].name # n]]

(* The servers filterServersForRemoval keeps under --unused.                *)
UnusedServers(servers, statsMap, period) ==
    SelectSeq(servers,
              LAMBDA s : \/ NameKey(s.name) \notin DOMAIN statsMap
                         \/ IsUnused(statsMap[NameKey(s.name)], Duration(period), Today))

(* selectServersToRemove: the servers at the indices selected.              *)
ServersAt(displayServers, selectedIdx) ==
    LET inRange == SelectSeq(selectedIdx, LAMBDA idx : idx >= 0 /\ idx < Len(displayServers))
    IN  [k \in 1..Len(inRange) |-> displayServers[inRange[k] + 1]]

(* The order of two characters, of two names.                               *)
CharRank(c) == CHOOSE i \in 1..3 : << "a", "b", "c" >>[i] = c

NameLess(x, y) == CharRank(x[1]) < CharRank(y[1])

(* The less function of sortStats for a --sort value.                       *)
Less(sortBy, x, y) ==
    CASE sortBy = "name" -> NameLess(x.name, y.name)
      [] sortBy = "last-used" -> After(x.lastUsed, y.lastUsed)
      [] OTHER -> x.calls > y.calls

(* What sort.Slice may leave: the orders of stats in which no record comes  *)
(* before one that is less than it.                                         *)
SortedBy(stats, sortBy) ==
    { [k \in 1..Len(stats) |-> stats[q[k]]] :
        q \in { r \in Perms(1..Len(stats)) :
                  \A i, j \in 1..Len(stats) :
                      i < j => ~Less(sortBy, stats[r[j]], stats[r[i]]) } }

(* One row of outputStatsJSON, of RenderStatsTable: the record and whether  *)
(* it is marked unused.                                                     *)
StatsRow(s, duration) ==
    [name |-> s.name, calls |-> s.calls, lastUsed |-> s.lastUsed,
     unused |-> IsUnused(s, duration, Today)]

(* What ParseDirectory may have found in the transcripts.                   *)
CliTranscripts ==
    { <<>>,
      << ToolCall(<< "a" >>, << "t" >>, 99) >>,
      << ToolCall(<< "a" >>, << "t" >>, 10), ToolCall(<< "b" >>, << "u" >>, 93) >>,
      << ToolCall(<< "a" >>, << "t" >>, 99), ToolCall(<< "b" >>, << "u" >>, 94) >> }

(* What the config file holds: nothing, no JSON text, two global servers,   *)
(* two global servers and one of a project.                                 *)
CliContents ==
    { Absent, Invalid,
      Full(Obj(<< KV("mcpServers", Mapping(<< "b", "a" >>, "g")) >>)),
      Full(Obj(<< KV("mcpServers", Mapping(<< "b", "a" >>, "g")),
                  KV("projects",
                     Obj(<< KV("/p", Obj(<< KV("mcpServers", Mapping(<< "a" >>, "p")) >>)) >>))
               >>)) }

PeriodFlags == { << "7", "d" >>, << "A", "l", "l" >>, << "1", "y" >> }

(* The lines typed at the selection prompt and at the confirmation.         *)
SelectionLines ==
    { Input(<< "a", "l", "l" >>, TRUE), Input(<< "1", " ", "1" >>, TRUE),
      Input(<< "2" >>, TRUE), Input(<<>>, TRUE), Input(<< "1" >>, FALSE) }

Answers ==
    { Input(<< "Y", "E", "S" >>, TRUE), Input(<< "y" >>, TRUE), Input(<< "n" >>, TRUE),
      Input(<<>>, TRUE), Input(<< "y" >>, FALSE) }

NotAsked == Input(<< "-" >>, FALSE)

CliLocals ==
    [content |-> NotRead, newContent |-> NotRead, backupPath |-> -1, err |-> "",
     servers |-> <<>>, stats |-> <<>>, statsMap |-> <<>>, display |-> <<>>,
     toRemove |-> <<>>]

(* The command lines: stats [--json] --period P, and                       *)
(* remove [--unused] [--dry-run] [--force] --period P.                      *)
CommandLines ==
    { [cmd |-> "stats", unused |-> FALSE, dryRun |-> FALSE, force |-> FALSE,
       json |-> j, period |-> f] : j \in BOOLEAN, f \in PeriodFlags }
    \cup { [cmd |-> "remove", unused |-> u, dryRun |-> d, force |-> fo,
            json |-> FALSE, period |-> f] : u, d, fo \in BOOLEAN, f \in PeriodFlags }

InitCli ==
    /\ files \in {InitFiles(c) : c \in CliContents}
    /\ now = 0
    /\ op = [p \in Procs |-> "none"]
    /\ args = [p \in Procs |-> <<>>]
    /\ loc = [p \in Procs |-> CliLocals]
    /\ ret = [p \in Procs |-> NoReturn]
    /\ hist = [p \in Procs |-> NewHist(files)]
    /\ \E flags \in CommandLines :
          /\ pc = [p \in Procs |-> IF flags.cmd = "stats" THEN "cli_stats" ELSE "cli_load"]
          /\ observed = [flags |-> flags, pre |-> files, statsFailed |-> FALSE,
                         durations |-> {}, answer |-> NotAsked, out |-> <<>>, msg |-> ""]

(* The command returns to the shell, with an error or after a message.      *)
CliReturns(p, e, msg) ==
    /\ Returns(p, e, -1)
    /\ observed' = [observed EXCEPT !.msg = msg]

(* transcript.GetStats(transcriptPath, period): an error of ParseDirectory, *)
(* or the stats of the calls it found.  runStats returns the error; in      *)
(* loadServersWithStats the stats are then none.                            *)
CliGetStats(p) ==
    /\ pc[p] = "cli_stats"
    /\ LET cmd == observed.flags.cmd
           period == ParsePeriod(observed.flags.period)
           next == IF cmd = "stats" THEN "cli_load" ELSE "cli_filter"
       IN  \/ /\ OnStatsError(cmd) = "abort"
              /\ Returns(p, "failed to walk directory", -1)
              /\ observed' = [observed EXCEPT !.statsFailed = TRUE]
              /\ UNCHANGED loc
           \/ /\ OnStatsError(cmd) = "continue"
              /\ pc' = [pc EXCEPT ![p] = next]
              /\ loc' = [loc EXCEPT ![p].stats = <<>>, ![p].statsMap = <<>>]
              /\ observed' = [observed EXCEPT !.statsFailed = TRUE]
              /\ UNCHANGED ret
           \/ \E calls \in CliTranscripts :
                 \E order \in Perms(DOMAIN StatsMapOf(calls)) :
                    LET stats == FilterThenAggregate(calls, period, Today, order) IN
                    /\ pc' = [pc EXCEPT ![p] = next]
                    /\ loc' = [loc EXCEPT ![p].stats = stats,
                                          ![p].statsMap = StatsByName(stats)]
                    /\ UNCHANGED << ret, observed >>
    /\ UNCHANGED << files, now, op, args, hist >>

(* config.Load(configPath) and cfg.Servers(); in runRemove then the check   *)
(* for no server at all.                                                    *)
CliLoad(p) ==
    /\ pc[p] = "cli_load"
    /\ LET cmd == observed.flags.cmd
           next == IF cmd = "stats" THEN "cli_output" ELSE "cli_stats"
       IN  \/ /\ ~Exists(files.cfg)
              /\ pc' = [pc EXCEPT ![p] = next]
              /\ loc' = [loc EXCEPT ![p].servers = <<>>]
              /\ UNCHANGED << ret, observed >>
           \/ /\ Exists(files.cfg)
              /\ CliReturns(p, "read error", "")
              /\ UNCHANGED loc
           \/ /\ Exists(files.cfg)
              /\ ~UnmarshalRawOk(files.cfg)
              /\ CliReturns(p, "unmarshal error", "")
              /\ UNCHANGED loc
           \/ /\ Exists(files.cfg)
              /\ UnmarshalRawOk(files.cfg)
              /\ LET raw == DecodeRawConfig(files.cfg.doc) IN
                 \E order \in RangeOrders(raw) :
                     loc' = [loc EXCEPT ![p].servers = parseServers(raw, order)]
              /\ pc' = [pc EXCEPT ![p] = next]
              /\ UNCHANGED << ret, observed >>
    /\ UNCHANGED << files, now, op, args, hist >>

(* runStats: mergeConfiguredServers, sortStats, then outputStatsJSON or     *)
(* RenderStatsTable (which sorts by calls again): a row for each record.    *)
CliOutput(p) ==
    /\ pc[p] = "cli_output"
    /\ LET duration == Duration(ParsePeriod(observed.flags.period))
           merged == mergeConfiguredServers(loc[p].stats, loc[p].servers)
       IN  \E sortBy \in {"calls", "name", "last-used"} :
              \E sorted \in SortedBy(merged, sortBy) :
                 \E shown \in (IF observed.flags.json THEN {sorted}
                               ELSE SortedBy(sorted, "calls")) :
                    /\ loc' = [loc EXCEPT ![p].stats = sorted]
                    /\ observed' = [observed EXCEPT
                          !.out = [k \in 1..Len(shown) |-> StatsRow(shown[k], duration)],
                          !.durations = IF shown = <<>> THEN @ ELSE @ \cup {duration},
                          !.msg = IF ~observed.flags.json /\ shown = <<>>
                                  THEN "No usage data found." ELSE ""]
    /\ Returns(p, "", -1)
    /\ UNCHANGED << files, now, op, args, hist >>

(* runRemove after loadServersWithStats: no server configured, or           *)
(* filterServersForRemoval.                                                 *)
CliFilter(p) ==
    /\ pc[p] = "cli_filter"
    /\ LET servers == loc[p].servers
           period == ParsePeriod(observed.flags.period)
           unused == UnusedServers(servers, loc[p].statsMap, period)
           asked == \E i \in 1..Len(servers) : NameKey(servers[i].name) \in DOMAIN loc[p].statsMap
       IN  IF servers = <<>>
           THEN CliReturns(p, "", "No MCP servers configured.") /\ UNCHANGED loc
           ELSE IF ~observed.flags.unused
           THEN /\ pc' = [pc EXCEPT ![p] = "cli_select"]
                /\ loc' = [loc EXCEPT ![p].display = servers]
                /\ UNCHANGED << ret, observed >>
           ELSE IF unused = <<>>
           THEN /\ Returns(p, "", -1)
                /\ observed' = [observed EXCEPT
                      !.msg = "No unused servers found.",
                      !.durations = IF asked THEN @ \cup {Duration(period)} ELSE @]
                /\ UNCHANGED loc
           ELSE /\ pc' = [pc EXCEPT ![p] = "cli_select"]
                /\ loc' = [loc EXCEPT ![p].display = unused]
                /\ observed' = [observed EXCEPT
                      !.durations = IF asked THEN @ \cup {Duration(period)} ELSE @]
                /\ UNCHANGED ret
    /\ UNCHANGED << files, now, op, args, hist >>

(* selectServersToRemove: the prompt reads a line.                          *)
CliSelect(p) ==
    /\ pc[p] = "cli_select"
    /\ \E in \in SelectionLines :
          LET toRemove == ServersAt(loc[p].display,
                                    SelectServersPromptWithReader(in, Len(loc[p].display)))
          IN  IF toRemove = <<>>
              THEN CliReturns(p, "", "No servers selected.") /\ UNCHANGED loc
              ELSE /\ pc' = [pc EXCEPT ![p] = "cli_execute"]
                   /\ loc' = [loc EXCEPT ![p].toRemove = toRemove]
                   /\ UNCHANGED << ret, observed >>
    /\ UNCHANGED << files, now, op, args, hist >>

(* executeRemoval up to the call of config.RemoveServers: the dry run, the  *)
(* confirmation.                                                            *)
CliExecute(p) ==
    /\ pc[p] = "cli_execute"
    /\ IF observed.flags.dryRun
       THEN CliReturns(p, "", "Dry run")
       ELSE IF observed.flags.force
       THEN /\ pc' = [pc EXCEPT ![p] = "idle"]
            /\ UNCHANGED << ret, observed >>
       ELSE \E in \in Answers :
               IF ConfirmPromptWithReader(in, FALSE)
               THEN /\ pc' = [pc EXCEPT ![p] = "idle"]
                    /\ observed' = [observed EXCEPT !.answer = in]
                    /\ UNCHANGED ret
               ELSE /\ Returns(p, "", -1)
                    /\ observed' = [observed EXCEPT !.answer = in, !.msg = "Canceled."]
    /\ UNCHANGED << files, now, op, args, loc, hist >>

(* config.RemoveServers(configPath, toRemove).                              *)
CliRemoveServers(p) ==
    /\ Begin(p, "RemoveServers", loc[p].toRemove)
    /\ IF FirstStep(loc[p].toRemove) = "done"
       THEN Returns(p, "", -1)
       ELSE Goto(p, FirstStep(loc[p].toRemove))

(* The clock ticks while RemoveServers runs.                                *)
CliTick == op["p1"] = "RemoveServers" /\ Tick

CliStep(p) ==
    \/ CliGetStats(p)
    \/ CliLoad(p)
    \/ CliOutput(p)
    \/ CliFilter(p)
    \/ CliSelect(p)
    \/ CliExecute(p)
    \/ CliRemoveServers(p)
    \/ BkRead(p)
    \/ BkWrite(p)
    \/ RmRead(p)
    \/ AwCreate(p)
    \/ AwWriteChunk(p)
    \/ AwWrite(p)
    \/ AwClose(p)
    \/ AwRename(p)
    \/ AwCleanup(p)

NextCli == CliStep("p1") \/ CliTick

CliSpec == InitCli /\ [][NextCli]_vars

Cmd == observed.flags.cmd

AnsweredYes ==
    /\ observed.answer.newline
    /\ TrimSpace(ToLower(observed.answer.text)) \in { << "y" >>, << "y", "e", "s" >> }

(* C23: in the remove command the config file and the backup files are as   *)
(* the command found them, and nothing has been written, unless servers     *)
(* were selected, --dry-run is off and --force is on or the confirmation    *)
(* was answered y or yes; and when the config file has been replaced, one   *)
(* backup was made before, holding the bytes the command found.             *)
C23_RemoveMutatesOnlyWhenConfirmed ==
    Cmd = "remove" =>
        /\ (\/ files.cfg # observed.pre.cfg
            \/ files.bak # observed.pre.bak
            \/ hist[W].backups > 0
            \/ hist[W].replaced > 0
            \/ op[W] = "RemoveServers")
              => /\ loc[W].toRemove # <<>>
                 /\ ~observed.flags.dryRun
                 /\ observed.flags.force \/ AnsweredYes
        /\ (files.cfg # observed.pre.cfg \/ hist[W].replaced > 0)
              => /\ hist[W].backups = 1
                 /\ loc[W].backupPath \in Seconds
                 /\ files.bak[loc[W].backupPath] = observed.pre.cfg

(* C23 witness: without --force, after the answer YES, the servers selected *)
(* are gone from the config file and there is one backup.                   *)
C23_Witness ==
    /\ Cmd = "remove"
    /\ ~observed.flags.force
    /\ ~observed.flags.dryRun
    /\ observed.answer = Input(<< "Y", "E", "S" >>, TRUE)
    /\ op[W] = "RemoveServers"
    /\ Succeeded
    /\ files.cfg # observed.pre.cfg
    /\ MatchedBy(loc[W].toRemove, files.cfg.doc) = {}
    /\ Cardinality({sec \in Seconds : Exists(files.bak[sec])}) = 1

(* C29: when GetStats fails, the remove command does not return its error   *)
(* and goes on with no stats: under --unused every configured server is     *)
(* listed, and under --force every server selected is removed; the stats    *)
(* command returns the error, having shown nothing and not loaded the       *)
(* config.                                                                  *)
C29_RemoveGoesOnWithoutStats ==
    observed.statsFailed =>
        /\ Cmd = "remove" =>
              /\ ret[W].err # "failed to walk directory"
              /\ loc[W].statsMap = <<>>
              /\ observed.msg \notin {"No unused servers found."}
              /\ (observed.flags.unused /\ pc[W] # "cli_filter" /\ loc[W].servers # <<>>)
                    => loc[W].display = loc[W].servers
              /\ (observed.flags.force /\ op[W] = "RemoveServers" /\ Succeeded)
                    => MatchedBy(loc[W].toRemove, files.cfg.doc) = {}
        /\ Cmd = "stats" =>
              /\ Done
              /\ ret[W].err = "failed to walk directory"
              /\ observed.out = <<>>
              /\ loc[W].servers = <<>>
              /\ files = observed.pre

(* C29 witness: remove --unused --force after a failed GetStats, all typed  *)
(* at the prompt: the three configured servers are gone.                    *)
C29_Witness ==
    /\ Cmd = "remove"
    /\ observed.statsFailed
    /\ observed.flags.unused
    /\ observed.flags.force
    /\ op[W] = "RemoveServers"
    /\ Succeeded
    /\ Len(loc[W].servers) = 3
    /\ Len(loc[W].toRemove) = 3
    /\ EntriesOf(observed.pre.cfg.doc) # {}
    /\ EntriesOf(files.cfg.doc) = {}

====
